---- MODULE Spec2Model ----
(***************************************************************************)
(* Krippendorff's alpha: the reliability computation engine of             *)
(* krippendorff_alpha (metric.py) and its entry point compute_alpha        *)
(* (compute_alpha.py).                                                     *)
(*                                                                         *)
(* Numbers.  A float is modelled as an exact extended rational             *)
(* [n |-> numerator, d |-> denominator]: d > 0 and gcd(n, d) = 1 for a     *)
(* finite value, d = 0 for the three IEEE specials (+inf = 1/0,            *)
(* -inf = -1/0, NaN = 0/0).  The missing cell of a reliability matrix is   *)
(* the NaN.  Binary rounding error of float64 is not modelled; round(x, 3) *)
(* is.                                                                     *)
(***************************************************************************)
EXTENDS Integers, Sequences, FiniteSets, TLC

-----------------------------------------------------------------------------
(* Extended rational arithmetic (the float64 operations the code uses).    *)

Abs(i) == IF i < 0 THEN -i ELSE i

Sgn(i) == IF i < 0 THEN -1 ELSE IF i > 0 THEN 1 ELSE 0

RECURSIVE GCD(_, _)
GCD(a, b) == IF b = 0 THEN a ELSE GCD(b, a % b)

Q(n, d) ==
    IF d = 0 THEN [n |-> Sgn(n), d |-> 0]
    ELSE LET s == IF d < 0 THEN -1 ELSE 1
             g == GCD(Abs(n), Abs(d))
         IN  [n |-> (s * n) \div g, d |-> Abs(d) \div g]

Zero == [n |-> 0, d |-> 1]
One == [n |-> 1, d |-> 1]
Inf == [n |-> 1, d |-> 0]
NaN == [n |-> 0, d |-> 0]

FromInt(i) == [n |-> i, d |-> 1]

isnan(x) == x.d = 0 /\ x.n = 0

IsInf(x) == x.d = 0 /\ x.n # 0

IsFinite(x) == x.d > 0

Neg(x) == [n |-> -x.n, d |-> x.d]

Add(x, y) ==
    IF isnan(x) \/ isnan(y) THEN NaN
    ELSE IF IsInf(x) THEN (IF IsInf(y) /\ y.n # x.n THEN NaN ELSE x)
    ELSE IF IsInf(y) THEN y
    ELSE Q(x.n * y.d + y.n * x.d, x.d * y.d)

Sub(x, y) == Add(x, Neg(y))

Mul(x, y) ==
    IF isnan(x) \/ isnan(y) THEN NaN
    ELSE IF IsInf(x) \/ IsInf(y)
         THEN (IF x.n = 0 \/ y.n = 0 THEN NaN ELSE [n |-> Sgn(x.n) * Sgn(y.n), d |-> 0])
    ELSE Q(x.n * y.n, x.d * y.d)

\* x / y for y # 0 (every division of the code is guarded against a zero divisor)
Div(x, y) ==
    IF isnan(x) \/ isnan(y) THEN NaN
    ELSE IF IsInf(y) THEN (IF IsInf(x) THEN NaN ELSE Zero)
    ELSE IF IsInf(x) THEN [n |-> Sgn(x.n) * Sgn(y.n), d |-> 0]
    ELSE Q(x.n * y.d, x.d * y.n)

\* x < y, float comparison: false as soon as one side is NaN
Lt(x, y) ==
    /\ ~isnan(x)
    /\ ~isnan(y)
    /\ IF IsInf(x) THEN x.n < 0 /\ y # x
       ELSE IF IsInf(y) THEN y.n > 0
       ELSE x.n * y.d < y.n * x.d

Gt(x, y) == Lt(y, x)

Le(x, y) == ~isnan(x) /\ ~isnan(y) /\ ~Lt(y, x)

Ge(x, y) == Le(y, x)

\* float == : NaN is equal to nothing, normalised values compare by value
FEq(x, y) == ~isnan(x) /\ ~isnan(y) /\ x = y

Floor(x) == x.n \div x.d

\* int(x): truncation toward zero of a finite value
Trunc(x) == IF x.n >= 0 THEN x.n \div x.d ELSE -((-x.n) \div x.d)

is_integer(x) == IsFinite(x) /\ x.d = 1

\* round(x, ndigits): nearest multiple of 10^-ndigits, ties to even; inf and NaN unchanged
RoundTo(x, scale) ==
    IF ~IsFinite(x) THEN x
    ELSE LET num == x.n * scale
             fl == num \div x.d
             rem2 == 2 * (num - fl * x.d)
             r == IF rem2 < x.d THEN fl
                  ELSE IF rem2 > x.d THEN fl + 1
                  ELSE IF fl % 2 = 0 THEN fl ELSE fl + 1
         IN  Q(r, scale)

-----------------------------------------------------------------------------
(* Program constants (constants.py).                                       *)

SYMMETRIC_DISAGREEMENT_DIVISOR == 2
DEFAULT_DECIMAL_PLACES == 3
MIN_ANNOTATORS_REQUIRED == 3
MIN_SUBJECTS_REQUIRED == 3

\* schema.py, DataTypeEnum
DataTypeEnum == {"nominal", "ordinal", "interval", "ratio"}

\* 10 ^ DEFAULT_DECIMAL_PLACES
RECURSIVE Pow10(_)
Pow10(k) == IF k = 0 THEN 1 ELSE 10 * Pow10(k - 1)

round(x) == RoundTo(x, Pow10(DEFAULT_DECIMAL_PLACES))

-----------------------------------------------------------------------------
(* Distance metrics (metric.py).  An ordinal scale is                      *)
(* [given |-> BOOLEAN, items |-> sequence]; a scale item is                *)
(* [kind |-> "num", v |-> number] or [kind |-> "str", s |-> label].        *)

nominal_distance(a, b) == IF FEq(a, b) THEN Zero ELSE One

\* a in scale: Python compares the float a with every item; a string item never equals a float
InScale(a, scale) == \E i \in 1..Len(scale) : scale[i].kind = "num" /\ FEq(scale[i].v, a)

\* scale.index(a), 0-based: the first position holding a
ScaleIndex(a, scale) ==
    (CHOOSE i \in 1..Len(scale) :
        /\ scale[i].kind = "num" /\ FEq(scale[i].v, a)
        /\ \A j \in 1..(i - 1) : ~(scale[j].kind = "num" /\ FEq(scale[j].v, a))) - 1

ordinal_distance(a, b, scale) ==
    IF ~scale.given \/ ~InScale(a, scale.items) \/ ~InScale(b, scale.items)
    THEN nominal_distance(a, b)
    ELSE LET diff == ScaleIndex(a, scale.items) - ScaleIndex(b, scale.items)
         IN  FromInt(diff * diff)

interval_distance(a, b) == Mul(Sub(a, b), Sub(a, b))

\* ratio_distance without its two guards for a zero denominator
ratio_distance_unguarded(a, b) == Div(Mul(Sub(a, b), Sub(a, b)), Add(a, b))

ratio_distance(a, b) ==
    IF FEq(a, Zero) /\ FEq(b, Zero) THEN Zero
    ELSE IF FEq(Add(a, b), Zero) THEN (IF ~FEq(a, b) THEN Inf ELSE Zero)
    ELSE Div(Mul(Sub(a, b), Sub(a, b)), Add(a, b))

\* the distance_fn krippendorff_alpha selects for a supported data type
distance_fn(dt, scale, a, b) ==
    CASE dt = "nominal" -> nominal_distance(a, b)
      [] dt = "ordinal" -> ordinal_distance(a, b, scale)
      [] dt = "interval" -> interval_distance(a, b)
      [] dt = "ratio" -> ratio_distance(a, b)

\* A Python value handed to a distance function by a direct call: a float or a str.
Num(x) == [kind |-> "num", s |-> "", v |-> x]

Str(s) == [kind |-> "str", s |-> s, v |-> NaN]

\* a == b on two such values: a str never equals a float
PyEq(a, b) == a.kind = b.kind /\ (IF a.kind = "num" THEN FEq(a.v, b.v) ELSE a.s = b.s)

\* a in scale
Contains(scale, a) == \E i \in 1..Len(scale) : PyEq(scale[i], a)

\* scale.index(a), 0-based: the first position holding a
scale_index(scale, a) ==
    (CHOOSE i \in 1..Len(scale) :
        PyEq(scale[i], a) /\ \A j \in 1..(i - 1) : ~PyEq(scale[j], a)) - 1

\* the outcome of a direct call: the float returned or the exception raised
Returns(x) == [error |-> [type |-> "none", about |-> "none"], value |-> x]

Raises(type, about) == [error |-> [type |-> type, about |-> about], value |-> NaN]

\* nominal_distance(a, b) on Python values
nominal_distance_of(a, b) == Returns(IF PyEq(a, b) THEN Zero ELSE One)

\* the ordinal distance as the plain difference of the ranks
ordinal_distance_unsquared(a, b, scale) ==
    IF ~scale.given \/ ~Contains(scale.items, a) \/ ~Contains(scale.items, b)
    THEN nominal_distance_of(a, b)
    ELSE Returns(FromInt(Abs(scale_index(scale.items, a) - scale_index(scale.items, b))))

\* ordinal_distance(a, b, scale) on Python values
ordinal_distance_of(a, b, scale) ==
    IF ~scale.given \/ ~Contains(scale.items, a) \/ ~Contains(scale.items, b)
    THEN nominal_distance_of(a, b)
    ELSE LET diff == scale_index(scale.items, a) - scale_index(scale.items, b)
         IN  Returns(FromInt(diff * diff))

\* interval_distance(a, b) on Python values: str - str raises
interval_distance_of(a, b) ==
    IF a.kind = "num" /\ b.kind = "num" THEN Returns(interval_distance(a.v, b.v))
    ELSE Raises("TypeError", "unsupported operand")

\* ratio_distance(a, b) on Python values: a str is never == 0, and the sum of
\* two str is a str, so a call with a str reaches a - b, which raises
ratio_distance_of(a, b) ==
    IF a.kind = "num" /\ b.kind = "num" THEN Returns(ratio_distance(a.v, b.v))
    ELSE Raises("TypeError", "unsupported operand")

DistanceFunctions ==
    {"nominal_distance", "ordinal_distance", "interval_distance", "ratio_distance"}

\* the outcome of the direct call fn(a, b) or ordinal_distance(a, b, scale)
distance_call(fn, a, b, scale) ==
    CASE fn = "nominal_distance" -> nominal_distance_of(a, b)
      [] fn = "ordinal_distance" -> ordinal_distance_of(a, b, scale)
      [] fn = "interval_distance" -> interval_distance_of(a, b)
      [] fn = "ratio_distance" -> ratio_distance_of(a, b)

-----------------------------------------------------------------------------
(* Annotator weights (metric.py).  A weight_dict is                        *)
(* [given |-> BOOLEAN, w |-> function from names to weights].              *)

\* ANNOTATOR_REGEX of the test configuration, case-insensitive and anchored at both ends:
\* ^(annotator|annotation|label|rater|coder)[_\s]*[a-zA-Z0-9]+$
AnnotatorNames ==
    {"annotator1", "annotator2", "annotator3", "annotator4", "Annotator_1", "annotator 1", "expert"}

MatchesAnnotatorRegex(name) == name # "expert"

\* match.group(0) of an anchored pattern is the whole name, so parsing returns
\* the name unchanged whether or not it matches
parse_annotator_name(name) == IF MatchesAnnotatorRegex(name) THEN name ELSE name

\* dicts: a function whose DOMAIN is the set of keys
EmptyDict == [k \in {} |-> Zero]

compute_weight_vector(index, weight_dict) ==
    [i \in 1..Len(index) |->
        IF weight_dict.given /\ DOMAIN weight_dict.w # {}
           /\ parse_annotator_name(index[i]) \in DOMAIN weight_dict.w
        THEN weight_dict.w[parse_annotator_name(index[i])]
        ELSE One]

-----------------------------------------------------------------------------
(* Observed disagreement (metric.py).  A reliability matrix is a sequence  *)
(* of annotator rows, each a sequence of unit cells: matrix[a][u].         *)

NumRows(matrix) == Len(matrix)

NumCols(matrix) == IF Len(matrix) = 0 THEN 0 ELSE Len(matrix[1])

\* reliability_matrix[:, unit_idx]
Column(matrix, u) == [a \in 1..NumRows(matrix) |-> matrix[a][u]]

\* a unit weight of 1 / m_u in place of 1 / (m_u - 1)
unit_weight_by_count(m_u) == IF m_u < 2 THEN Zero ELSE Div(One, FromInt(m_u))

_calculate_unit_weight(m_u) == IF m_u < 2 THEN Zero ELSE Div(One, FromInt(m_u - 1))

\* dct[k] = dct.get(k, default) + v
DictAdd(dct, k, default, v) ==
    IF k \in DOMAIN dct THEN [dct EXCEPT ![k] = Add(@, v)]
    ELSE [j \in DOMAIN dct \cup {k} |-> IF j = k THEN Add(default, v) ELSE dct[j]]

DictAddInt(dct, k, v) ==
    IF k \in DOMAIN dct THEN [dct EXCEPT ![k] = @ + v]
    ELSE [j \in DOMAIN dct \cup {k} |-> IF j = k THEN v ELSE dct[j]]

\* the pairs (a, b) of the double loop of _process_unit_pairs, in iteration order
RECURSIVE PairsFrom(_, _, _)
PairsFrom(idx, i, j) ==
    IF i > Len(idx) THEN <<>>
    ELSE IF j > Len(idx) THEN PairsFrom(idx, i + 1, i + 2)
    ELSE <<(<<idx[i], idx[j]>>)>> \o PairsFrom(idx, i, j + 1)

\* the increasing sequence of the indices i with keep[i]
RECURSIVE IndicesWhere(_, _)
IndicesWhere(keep, i) ==
    IF i > Len(keep) THEN <<>>
    ELSE IF keep[i] THEN <<i>> \o IndicesWhere(keep, i + 1)
    ELSE IndicesWhere(keep, i + 1)

RECURSIVE PairLoop(_, _, _, _, _, _, _, _)
PairLoop(pairs, k, acc, vals, wv, dt, scale, unit_weight) ==
    IF k > Len(pairs) THEN acc
    ELSE LET a == pairs[k][1]
             b == pairs[k][2]
             d == Mul(Mul(wv[a], wv[b]), distance_fn(dt, scale, vals[a], vals[b]))
             weighted_d == Mul(d, unit_weight)
             categorical == dt \in {"nominal", "ordinal"}
             cat_a == Trunc(vals[a])
             cat_b == Trunc(vals[b])
             half_weighted_d == Div(weighted_d, FromInt(SYMMETRIC_DISAGREEMENT_DIVISOR))
             dis1 == DictAdd(acc.per_category_dis, cat_a, Zero, half_weighted_d)
             dis2 == DictAdd(dis1, cat_b, Zero, half_weighted_d)
             cnt1 == DictAddInt(acc.pairwise_counts, cat_a, 1)
             cnt2 == DictAddInt(cnt1, cat_b, 1)
         IN  PairLoop(pairs, k + 1,
                      [unit_disagreement |-> Add(acc.unit_disagreement, weighted_d),
                       per_category_dis |-> IF categorical THEN dis2 ELSE acc.per_category_dis,
                       pairwise_counts |-> IF categorical THEN cnt2 ELSE acc.pairwise_counts],
                      vals, wv, dt, scale, unit_weight)

_process_unit_pairs(annotator_values, wv, dt, scale, unit_weight) ==
    LET non_nan_indices ==
            IndicesWhere([i \in 1..Len(annotator_values) |-> ~isnan(annotator_values[i])], 1)
    IN  PairLoop(PairsFrom(non_nan_indices, 1, 2), 1,
                 [unit_disagreement |-> Zero, per_category_dis |-> EmptyDict,
                  pairwise_counts |-> EmptyDict],
                 annotator_values, wv, dt, scale, unit_weight)

\* a count of the coders that takes the missing values for values
num_coders_with_missing(annotator_values) == Len(annotator_values)

\* int(np.sum(~np.isnan(annotator_values)))
num_coders(annotator_values) ==
    Cardinality({i \in 1..Len(annotator_values) : ~isnan(annotator_values[i])})

\* dct[k] = dct.get(k, 0) + other[k] for every key of other
MergeDict(dct, other) ==
    [k \in DOMAIN dct \cup DOMAIN other |->
        IF k \notin DOMAIN other THEN dct[k]
        ELSE IF k \notin DOMAIN dct THEN Add(Zero, other[k])
        ELSE Add(dct[k], other[k])]

MergeDictInt(dct, other) ==
    [k \in DOMAIN dct \cup DOMAIN other |->
        IF k \notin DOMAIN other THEN dct[k]
        ELSE IF k \notin DOMAIN dct THEN other[k]
        ELSE dct[k] + other[k]]

-----------------------------------------------------------------------------
(* Expected disagreement (metric.py).                                      *)

CellIndices(matrix) == (1..NumRows(matrix)) \X (1..NumCols(matrix))

\* reliability_matrix[~np.isnan(reliability_matrix)], as the positions of the kept cells
NonNanCells(matrix) == {c \in CellIndices(matrix) : ~isnan(matrix[c[1]][c[2]])}

\* the least and the greatest value of a non-empty set of numbers
MinOf(S) == CHOOSE x \in S : \A y \in S : Le(x, y)

MaxOf(S) == CHOOSE x \in S : \A y \in S : Ge(x, y)

RECURSIVE SortedSeq(_)
SortedSeq(S) == IF S = {} THEN <<>> ELSE <<MinOf(S)>> \o SortedSeq(S \ {MinOf(S)})

\* np.unique(values, return_counts=True): the distinct values in increasing order
unique_values(matrix) == SortedSeq({matrix[c[1]][c[2]] : c \in NonNanCells(matrix)})

CountOf(matrix, v) == Cardinality({c \in NonNanCells(matrix) : matrix[c[1]][c[2]] = v})

\* {int(value): count / total_values for value, count in zip(unique_values, counts)}:
\* a later value with the same int() replaces the entry of an earlier one
category_frequencies(matrix) ==
    LET U == {matrix[c[1]][c[2]] : c \in NonNanCells(matrix)}
        total_values == Cardinality(NonNanCells(matrix))
    IN  [k \in {Trunc(v) : v \in U} |->
            Q(CountOf(matrix, MaxOf({v \in U : Trunc(v) = k})), total_values)]

RECURSIVE ExpectedLoop(_, _, _, _, _, _, _)
ExpectedLoop(uv, i, j, acc, freq, dt, scale) ==
    IF i > Len(uv) THEN acc
    ELSE IF j > Len(uv) THEN ExpectedLoop(uv, i + 1, 1, acc, freq, dt, scale)
    ELSE LET value1 == uv[i]
             value2 == uv[j]
             distance == distance_fn(dt, scale, value1, value2)
             prob_product == Mul(freq[Trunc(value1)], freq[Trunc(value2)])
             disagreement_contribution == Mul(distance, prob_product)
             half_disagreement ==
                 Div(disagreement_contribution, FromInt(SYMMETRIC_DISAGREEMENT_DIVISOR))
             exp1 == DictAdd(acc.per_category_exp_dis, Trunc(value1), Zero, half_disagreement)
             exp2 == DictAdd(exp1, Trunc(value2), Zero, half_disagreement)
         IN  ExpectedLoop(uv, i, j + 1,
                 [expected_disagreement |->
                      Add(acc.expected_disagreement, disagreement_contribution),
                  per_category_exp_dis |->
                      IF dt \in {"nominal", "ordinal"} THEN exp2 ELSE acc.per_category_exp_dis],
                 freq, dt, scale)

compute_expected_disagreement(matrix, dt, scale) ==
    IF NonNanCells(matrix) = {}
    THEN [expected_disagreement |-> Zero, per_category_exp_dis |-> EmptyDict]
    ELSE ExpectedLoop(unique_values(matrix), 1, 1,
                      [expected_disagreement |-> Zero, per_category_exp_dis |-> EmptyDict],
                      category_frequencies(matrix), dt, scale)

-----------------------------------------------------------------------------
(* Per-category scores (metric.py).  A label mapping is                    *)
(* [given |-> BOOLEAN, items |-> sequence of [k |-> label, v |-> code]];   *)
(* a category key of the scores is [kind |-> "label", s |-> label] or      *)
(* [kind |-> "str", v |-> number], the latter standing for str(number).    *)

\* {v: k for k, v in mapping.items()}.get(value, str(value)): the last label of a code wins
reverse_map(value, mapping) ==
    IF \E i \in 1..Len(mapping.items) : FEq(mapping.items[i].v, value)
    THEN LET last == CHOOSE i \in 1..Len(mapping.items) :
                        /\ FEq(mapping.items[i].v, value)
                        /\ \A j \in (i + 1)..Len(mapping.items) : ~FEq(mapping.items[j].v, value)
         IN  [kind |-> "label", s |-> mapping.items[last].k]
    ELSE [kind |-> "str", v |-> value]

\* `if mapping`: neither None nor an empty dict
Truthy(mapping) == mapping.given /\ Len(mapping.items) > 0

mapped_category(category_value, mapping) ==
    IF Truthy(mapping) THEN reverse_map(category_value, mapping)
    ELSE [kind |-> "str", v |-> category_value]

DictGet(dct, k, default) == IF k \in DOMAIN dct THEN dct[k] ELSE default

Max2(i, j) == IF i >= j THEN i ELSE j

compute_per_category_scores(uv, per_category_obs, per_category_exp, counts, mapping) ==
    LET S == {uv[i] : i \in 1..Len(uv)}
        keys == {mapped_category(v, mapping) : v \in S}
        \* a later category with the same key replaces the entry of an earlier one
        source(key) == MaxOf({v \in S : mapped_category(v, mapping) = key})
    IN  [key \in keys |->
            LET c == Trunc(source(key))
            IN  [observed_disagreement |->
                     Div(DictGet(per_category_obs, c, Zero),
                         FromInt(Max2(DictGet(counts, c, 1), 1))),
                 expected_disagreement |-> DictGet(per_category_exp, c, Zero)]]

-----------------------------------------------------------------------------
(* Label coding (preprocessing.py, reliability.py).  A table is a sequence *)
(* of rows, one per unit; a row is a sequence of cells, one per annotator  *)
(* column; a cell is Str(label) or Num(x), a missing cell is Num(NaN).  A  *)
(* dict from labels to codes is the sequence of its items [k |-> label,    *)
(* v |-> code] in insertion order.                                         *)

\* the labels of the tables, in the order of Python's str comparison
LabelOrder ==
    <<"High", "Low", "Medium", "high", "low", "medium", "negative", "positive", "very high">>

LabelRank(label) == CHOOSE i \in 1..Len(LabelOrder) : LabelOrder[i] = label

\* sorted(labels)
RECURSIVE sorted(_)
sorted(labels) ==
    IF labels = {} THEN <<>>
    ELSE LET first == CHOOSE l \in labels : \A o \in labels : LabelRank(l) <= LabelRank(o)
         IN  <<first>> \o sorted(labels \ {first})

\* ORDINAL_CATEGORIES: the predefined scales of the configuration
ORDINAL_CATEGORIES == <<(<<"Low", "Medium", "High">>)>>

\* df[col] of a table
ColumnOf(table, c) == [u \in 1..Len(table) |-> table[u][c]]

\* the table with column c replaced: df[col] = column
SetColumn(table, c, column) ==
    [u \in 1..Len(table) |-> [table[u] EXCEPT ![c] = column[u]]]

isna(cell) == cell.kind = "num" /\ isnan(cell.v)

\* set(column.dropna().unique()) of a column of labels
unique_labels(column) == {column[u].s : u \in {x \in 1..Len(column) : ~isna(column[x])}}

\* the dict that gives every label the code 0
zero_mapping(labels) ==
    [i \in 1..Len(labels) |-> [k |-> labels[i], v |-> Zero]]

\* {label: i for i, label in enumerate(labels)}
enumerate_mapping(labels) ==
    [i \in 1..Len(labels) |-> [k |-> labels[i], v |-> FromInt(i - 1)]]

HasKey(items, label) == \E i \in 1..Len(items) : items[i].k = label

\* mapping[label]
CodeOf(items, label) == items[CHOOSE i \in 1..Len(items) : items[i].k = label].v

\* column.map(mapping): a value that is not a key of the mapping becomes NaN
map_column(column, items) ==
    [u \in 1..Len(column) |->
        IF column[u].kind = "str" /\ HasKey(items, column[u].s)
        THEN Num(CodeOf(items, column[u].s))
        ELSE Num(NaN)]

\* column.fillna(value)
fillna(column, value) ==
    [u \in 1..Len(column) |-> IF isna(column[u]) THEN Num(value) ELSE column[u]]

Elements(seq) == {seq[i] : i \in 1..Len(seq)}

\* the first predefined scale holding every label of the column, 0 if there is none
matching_scale(labels) ==
    IF \E i \in 1..Len(ORDINAL_CATEGORIES) : labels \subseteq Elements(ORDINAL_CATEGORIES[i])
    THEN CHOOSE i \in 1..Len(ORDINAL_CATEGORIES) :
            /\ labels \subseteq Elements(ORDINAL_CATEGORIES[i])
            /\ \A j \in 1..(i - 1) : ~(labels \subseteq Elements(ORDINAL_CATEGORIES[j]))
    ELSE 0

\* dicts of dicts: dct[key] = value
DictSet(dct, key, value) ==
    [k \in DOMAIN dct \cup {key} |-> IF k = key THEN value ELSE dct[k]]

\* convert_ordinal_to_numeric(column): the coded column and the global dict after the call
convert_ordinal_to_numeric(column, name, ord_mappings) ==
    LET labels == unique_labels(column)
        scale == matching_scale(labels)
        built == IF scale # 0 THEN enumerate_mapping(ORDINAL_CATEGORIES[scale])
                 ELSE enumerate_mapping(sorted(labels))
    IN  [column |-> map_column(column, built),
         ordinal_mappings |-> DictSet(ord_mappings, name, built)]

\* convert_nominal_to_numeric(column, col_name): the coded column and the global
\* dict after the call
convert_nominal_to_numeric(column, col_name, nom_mappings) ==
    LET after == IF col_name \notin DOMAIN nom_mappings
                 THEN DictSet(nom_mappings, col_name,
                              enumerate_mapping(sorted(unique_labels(column))))
                 ELSE nom_mappings
    IN  [column |-> fillna(map_column(column, after[col_name]), FromInt(-1)),
         nominal_mappings |-> after]

\* preprocess_data, lines 268-280: the loop over the annotator columns from
\* column c on; st is the table and the two global dicts so far
RECURSIVE code_columns(_, _, _, _)
code_columns(st, cols, c, metric) ==
    IF c > Len(cols) THEN st
    ELSE IF metric = "ordinal"
         THEN LET r == convert_ordinal_to_numeric(ColumnOf(st.table, c), cols[c],
                                                 st.ordinal_mappings)
              IN  code_columns([st EXCEPT !.table = SetColumn(st.table, c, r.column),
                                          !.ordinal_mappings = r.ordinal_mappings],
                               cols, c + 1, metric)
         ELSE IF metric = "nominal"
         THEN LET r == convert_nominal_to_numeric(ColumnOf(st.table, c), cols[c],
                                                 st.nominal_mappings)
              IN  code_columns([st EXCEPT !.table = SetColumn(st.table, c, r.column),
                                          !.nominal_mappings = r.nominal_mappings],
                               cols, c + 1, metric)
         ELSE code_columns(st, cols, c + 1, metric)

\* a row has a missing cell
HasNa(row) == \E c \in 1..Len(row) : isna(row[c])

RECURSIVE SelectSeq2(_, _, _)
SelectSeq2(seq, keep, i) ==
    IF i > Len(seq) THEN <<>>
    ELSE (IF keep[i] THEN <<seq[i]>> ELSE <<>>) \o SelectSeq2(seq, keep, i + 1)

\* df.dropna(subset=annotator_cols): a new frame without the rows that have a missing cell
dropna(frame) ==
    LET keep == [u \in 1..Len(frame.values) |-> ~HasNa(frame.values[u])]
    IN  [frame EXCEPT !.index = SelectSeq2(frame.index, keep, 1),
                      !.values = SelectSeq2(frame.values, keep, 1)]

\* df[annotator_cols].fillna(-1)
fill_table(table) == [u \in 1..Len(table) |-> fillna(table[u], FromInt(-1))]

\* np.asarray(df[annotator_cols].values, dtype=np.float64): one row per row of the frame
compute_reliability_matrix_values(table) ==
    [u \in 1..Len(table) |-> [c \in 1..Len(table[u]) |-> table[u][c].v]]

\* a cell that np.asarray cannot convert to a float
HoldsLabel(table) ==
    \E u \in 1..Len(table) : \E c \in 1..Len(table[u]) : table[u][c].kind = "str"

-----------------------------------------------------------------------------
(* Updates of the stored matrix (reliability.py).  A DataFrame is           *)
(* [columns, index, values]; the text column is a column like any other.    *)

WORD_COLUMN_ALIASES == {"word", "token"}

\* pd.DataFrame()
EmptyFrame == [columns |-> <<>>, index |-> <<>>, values |-> <<>>]

\* DataFrame.empty
empty(frame) == Len(frame.columns) = 0 \/ Len(frame.values) = 0

RangeIndex(n) == [i \in 1..n |-> i - 1]

\* the elements of a sequence that are not in a set, in their order
Remaining(seq, S) ==
    LET keep(x) == x \notin S
    IN  SelectSeq(seq, keep)

HasColumn(frame, name) == name \in Elements(frame.columns)

ColumnAt(frame, name) == CHOOSE c \in 1..Len(frame.columns) : frame.columns[c] = name

\* the rows of a frame under the columns cols; a column the frame lacks is missing
reindex(frame, cols) ==
    [u \in 1..Len(frame.values) |->
        [c \in 1..Len(cols) |->
            IF HasColumn(frame, cols[c]) THEN frame.values[u][ColumnAt(frame, cols[c])]
            ELSE Num(NaN)]]

\* pd.concat([a, b], axis=0, ignore_index=...)
concat(a, b, ignore_index) ==
    LET cols == a.columns \o Remaining(b.columns, Elements(a.columns))
        idx == a.index \o b.index
    IN  [columns |-> cols,
         index |-> IF ignore_index THEN RangeIndex(Len(idx)) ELSE idx,
         values |-> reindex(a, cols) \o reindex(b, cols)]

\* the rows of left.merge(right, on=on, how="left") from the row u of left on
RECURSIVE merge_rows(_, _, _, _, _)
merge_rows(left, right, on, rest, u) ==
    IF u > Len(left.values) THEN <<>>
    ELSE LET Key(frame, r) ==
                 [k \in 1..Len(on) |-> frame.values[r][ColumnAt(frame, on[k])]]
             Matches(r) == Key(right, r) = Key(left, u)
             matching == SelectSeq([r \in 1..Len(right.values) |-> r], Matches)
             Joined(r) == left.values[u]
                             \o [c \in 1..Len(rest) |->
                                    right.values[r][ColumnAt(right, rest[c])]]
             rows == IF Len(matching) = 0
                     THEN <<left.values[u] \o [c \in 1..Len(rest) |-> Num(NaN)]>>
                     ELSE [j \in 1..Len(matching) |-> Joined(matching[j])]
         IN  rows \o merge_rows(left, right, on, rest, u + 1)

\* left.merge(right, on=on, how="left", suffixes=("", "_new"))
merge(left, right, on) ==
    LET rest == Remaining(right.columns, Elements(on))
        renamed == [c \in 1..Len(rest) |->
                       IF HasColumn(left, rest[c]) THEN rest[c] \o "_new" ELSE rest[c]]
        values == merge_rows(left, right, on, rest, 1)
    IN  [columns |-> left.columns \o renamed,
         index |-> RangeIndex(Len(values)),
         values |-> values]

\* frame[col] = np.nan for every col of cols, in their order
assign_nan(frame, cols) ==
    [frame EXCEPT !.columns = @ \o cols,
                  !.values = [u \in 1..Len(@) |->
                                 @[u] \o [c \in 1..Len(cols) |-> Num(NaN)]]]

\* the labels a dict of mappings knows
mapping_labels(mappings) ==
    UNION {{Str(mappings[col][i].k) : i \in 1..Len(mappings[col])} : col \in DOMAIN mappings}

\* detect_new_labels(new_data) under the module's mappings
detect_new_labels(new_data, mappings) ==
    LET rest == 2..Len(new_data.columns)
        complete == {u \in 1..Len(new_data.values) :
                        \A c \in rest : ~isna(new_data.values[u][c])}
        all_labels == {new_data.values[p[1]][p[2]] : p \in complete \X rest}
        known_labels == mapping_labels(mappings.nominal) \cup mapping_labels(mappings.ordinal)
    IN  ~(all_labels \subseteq known_labels)

\* the orders in which a for loop can visit the elements of a set
Orders(S) ==
    {order \in [1..Cardinality(S) -> S] :
        \A i \in 1..Cardinality(S), j \in 1..Cardinality(S) :
            i # j => order[i] # order[j]}

\* the columns of new_data that current_df lacks
new_columns(current_df, new_data) ==
    Elements(new_data.columns) \ Elements(current_df.columns)

\* the branch new_doc_annotator: current_df as the loop leaves it and the
\* merged table; order is the order in which the loop gave current_df its
\* missing columns
new_doc_annotator(current_df, new_data, merge_cols, order) ==
    LET cur == assign_nan(current_df, order)
        new == assign_nan(new_data, Remaining(cur.columns, Elements(new_data.columns)))
        indexed == \A k \in 1..Len(merge_cols) :
                       HasColumn(new, merge_cols[k]) /\ HasColumn(cur, merge_cols[k])
        joined == concat(cur, new, FALSE)
        cols == merge_cols \o Remaining(cur.columns, Elements(merge_cols))
        rows == Len(joined.values)
    IN  [current_df |-> cur,
         updated_df |->
            IF indexed
            THEN [columns |-> cols, index |-> RangeIndex(rows),
                  values |-> reindex(joined, cols)]
            ELSE [columns |-> <<"index">> \o joined.columns, index |-> RangeIndex(rows),
                  values |-> [u \in 1..rows |->
                                 <<Num(FromInt(joined.index[u]))>> \o joined.values[u]]]]

-----------------------------------------------------------------------------
(* Inputs.  The calls a client makes are drawn from bounded families.      *)

MaxAnnotators == 3
MaxUnits == 3
MaxCode == 1
MaxDeviations == 1

NoScale == [given |-> FALSE, items |-> <<>>]
NoMapping == [given |-> FALSE, items |-> <<>>]
NoWeights == [given |-> FALSE, w |-> EmptyDict]

\* the cell values the calls of a family put into a table of a data type:
\* the codes 0..MaxCode for the categorical types, the measurements
\* 0, 2, .., 2 * MaxCode for interval and ratio, and for the family "ratio"
\* the measurements -1..MaxCode + 1; the families that exercise the other
\* entry points call the engine on tables of zeros and missing cells
CellValues(fam, dt) ==
    IF fam = "ratio" THEN {FromInt(i) : i \in (-1)..(MaxCode + 1)}
    ELSE IF fam = "fraction" THEN {Q(i, 2) : i \in 1..(MaxCode + 2)}
    ELSE IF fam \in {"distance", "labels"} THEN {Zero}
    ELSE IF dt \in {"interval", "ratio"} THEN {FromInt(2 * i) : i \in 0..MaxCode}
    ELSE {FromInt(i) : i \in 0..MaxCode}

\* the matrix in which every unit u has the common value base[u] (or is
\* missing altogether) except for the cells changed by f
Matrix(nA, nU, base, f) ==
    [a \in 1..nA |-> [u \in 1..nU |-> IF <<a, u>> \in DOMAIN f THEN f[<<a, u>>] ELSE base[u]]]

\* DataFrame.index of a reliability matrix with nA annotator rows
IndexOf(nA) == [i \in 1..nA |-> CASE i = 1 -> "annotator1" [] i = 2 -> "annotator2"
                                  [] i = 3 -> "annotator3" [] OTHER -> "annotator4"]

\* the weights of the tests: annotator2 counts 0.8, the others 1.0
TestWeights ==
    [given |-> TRUE, w |-> [k \in {"annotator1", "annotator2", "annotator3"} |->
                               IF k = "annotator2" THEN Q(4, 5) ELSE One]]

\* two annotators count threefold, the third not at all
HeavyWeights ==
    [given |-> TRUE, w |-> [k \in {"annotator1", "annotator2", "annotator3"} |->
                               IF k = "annotator3" THEN Zero ELSE FromInt(3)]]

\* a weight for the first annotator only
ZeroWeights == [given |-> TRUE, w |-> [k \in {"annotator1"} |-> Zero]]

WeightDicts == {NoWeights, TestWeights, HeavyWeights}

\* half weight for the annotator the caller names key
KeyWeights(key) == [given |-> TRUE, w |-> [k \in {key} |-> Q(1, 2)]]

\* the spellings of the first annotator's name
FirstAnnotatorSpellings == {"annotator1", "Annotator_1", "annotator 1"}

\* the label mapping of a table whose codes were assigned in sorted order of
\* the labels: high is 0 and low is 1
SortedMapping ==
    [given |-> TRUE, items |-> <<[k |-> "high", v |-> Zero], [k |-> "low", v |-> One]>>]

\* a label mapping that has no label for the code 1
PartialMapping == [given |-> TRUE, items |-> <<[k |-> "high", v |-> Zero]>>]

\* the mapping arguments of the direct calls of krippendorff_alpha of a family
Mappings(fam) ==
    IF fam = "mapping" THEN {SortedMapping, PartialMapping} ELSE {NoMapping}

\* the DataFrame.index values of the tables of a family with nA annotator rows
Indexes(fam, nA) ==
    IF fam = "weights"
    THEN {[IndexOf(nA) EXCEPT ![1] = name] : name \in FirstAnnotatorSpellings}
    ELSE {IndexOf(nA)}

\* a caller-supplied ordinal scale over the codes: rank 0 is code 1, rank 2 is code 0
CodeScale ==
    [given |-> TRUE, items |-> <<[kind |-> "num", v |-> FromInt(1)],
                                 [kind |-> "str", s |-> "low"],
                                 [kind |-> "num", v |-> FromInt(0)],
                                 [kind |-> "num", v |-> FromInt(2)]>>]

Transpose(matrix) ==
    [u \in 1..NumCols(matrix) |-> [a \in 1..NumRows(matrix) |-> matrix[a][u]]]

\* the ordinal scale of the tests: low < medium < high < very high
LabelScale ==
    [given |-> TRUE, items |-> <<Str("low"), Str("medium"), Str("high"), Str("very high")>>]

\* an ordinal scale over the codes with a label in it
MixedScale ==
    [given |-> TRUE, items |-> <<Num(FromInt(1)), Str("low"), Num(FromInt(0)), Num(FromInt(2))>>]

\* the values the direct calls of the distance functions pass
DistanceValues ==
    {Num(FromInt(i)) : i \in (-1)..(MaxCode + 1)}
        \cup {Str(l) : l \in {"low", "medium", "high", "very high", "A"}}

\* the direct calls <<function, a, b, scale>> of a family
DistanceCalls(fam) ==
    IF fam = "distance"
    THEN ((DistanceFunctions \ {"ordinal_distance"}) \X DistanceValues \X DistanceValues
              \X {NoScale})
         \cup ({"ordinal_distance"} \X DistanceValues \X DistanceValues
                   \X {NoScale, LabelScale, MixedScale})
    ELSE {<<"nominal_distance", Str("A"), Str("A"), NoScale>>}

-----------------------------------------------------------------------------
(* State.                                                                  *)

VARIABLES
    family,                 \* the family the client draws its calls from
    pc,                     \* position of the running call, "idle" between calls
    CUSTOM_CONFIG,          \* constants.py _CUSTOM_CONFIG: "None" or the loaded custom config
    nominal_mappings,       \* preprocessing.py nominal_mappings: column name -> (label -> code)
    ordinal_mappings,       \* preprocessing.py ordinal_mappings: column name -> (label -> code)
    reliability_mappings,   \* reliability.py ordinal_mappings, nominal_mappings
    pickle_storage,         \* the files at PICKLE_STORAGE_PATH: the matrix and the mappings
    call,                   \* the arguments of the running call
    error,                  \* the exception the call raised, "none" if none
    steps,                  \* the stages the running call has performed so far
    data_type_enum,         \* the DataTypeEnum handed to krippendorff_alpha
    mapping,                \* the label mapping handed to krippendorff_alpha
    df,                     \* the DataFrame handed to krippendorff_alpha: [index, values]
    reliability_matrix,     \* krippendorff_alpha: df.to_numpy(dtype=np.float64)
    weight_vector,
    unit_idx,               \* compute_observed_disagreement: the unit of the next iteration
    observed_disagreement,
    per_category_obs_dis,
    pairwise_counts,
    total_pairable_values,
    expected_disagreement,
    per_category_exp_dis,
    results                 \* the dictionary returned to the caller

process_state ==
    <<family, CUSTOM_CONFIG, nominal_mappings, ordinal_mappings, reliability_mappings,
      pickle_storage>>

call_state == <<call, data_type_enum, mapping, df>>

observed_state ==
    <<unit_idx, observed_disagreement, per_category_obs_dis, pairwise_counts,
      total_pairable_values>>

expected_state == <<expected_disagreement, per_category_exp_dis>>

vars ==
    <<family, pc, CUSTOM_CONFIG, nominal_mappings, ordinal_mappings, reliability_mappings,
      pickle_storage, call, error, steps, data_type_enum, mapping, df,
      reliability_matrix, weight_vector, unit_idx, observed_disagreement,
      per_category_obs_dis, pairwise_counts, total_pairable_values,
      expected_disagreement, per_category_exp_dis, results>>

NoCall == [entry |-> "none"]

\* the mappings of reliability.py after import
NoMappings == [ordinal |-> EmptyDict, nominal |-> EmptyDict]

\* a file that does not exist, and a file holding a pickled object
NoFile == [exists |-> FALSE]
File(object) == [exists |-> TRUE, object |-> object]
NoFrame == [index |-> <<>>, values |-> <<>>]
NoResults == [keys |-> {}]

\* the locals of a call before it has computed anything
LocalsCleared ==
    /\ reliability_matrix' = <<>>
    /\ weight_vector' = <<>>
    /\ unit_idx' = 1
    /\ observed_disagreement' = Zero
    /\ per_category_obs_dis' = EmptyDict
    /\ pairwise_counts' = EmptyDict
    /\ total_pairable_values' = 0
    /\ expected_disagreement' = Zero
    /\ per_category_exp_dis' = EmptyDict
    /\ results' = NoResults

-----------------------------------------------------------------------------
(* The calls of a family.                                                  *)

\* a comparison of the data type that is sensitive to the letter case
lower_verbatim(str) == str

\* str.lower() on the data_type strings the clients pass
lower(str) ==
    CASE str \in {"nominal", "Nominal", "NOMINAL"} -> "nominal"
      [] str \in {"ordinal", "Ordinal"} -> "ordinal"
      [] str \in {"interval", "INTERVAL"} -> "interval"
      [] str \in {"ratio", "Ratio"} -> "ratio"
      [] str = "Invalid_Type" -> "invalid_type"
      [] OTHER -> str

DataTypeStrings ==
    {"nominal", "NOMINAL", "Ordinal", "interval", "ratio", "invalid_type", "Invalid_Type",
     "categorical"}

Shapes(minA, minU) == (minA..MaxAnnotators) \X (minU..MaxUnits)

\* direct call krippendorff_alpha(df, data_type, ordinal_scale, mapping, weight_dict)
KACall(dt, m, w, sc) ==
    [entry |-> "krippendorff_alpha", data_type |-> dt, df |-> m,
     index |-> IndexOf(NumRows(m)), weight_dict |-> w, ordinal_scale |-> sc,
     mapping |-> NoMapping]

\* call compute_alpha(df, data_type, column_mapping, annotation_level, weight_dict,
\* ordinal_scale, config_path); df is the table, one row per unit
CACall(dt, m, w, sc, none, cfg, kind) ==
    [entry |-> "compute_alpha", df_is_none |-> none, config_path |-> cfg,
     column_mapping |-> [kind |-> kind, annotator_cols |-> NumRows(m)],
     data_type |-> dt, df |-> Transpose(m), index |-> IndexOf(NumRows(m)),
     weight_dict |-> w, ordinal_scale |-> sc, mapping |-> NoMapping]

\* the smallest shape krippendorff_alpha accepts
MinShape == {<<MIN_ANNOTATORS_REQUIRED, MIN_SUBJECTS_REQUIRED>>}

\* the cells the calls of preprocess_data put into a table of a metric
LabelCells(fam, metric) ==
    IF fam = "cache" THEN {Str("negative"), Str("positive")}
    ELSE IF fam # "labels" THEN {Num(Zero)}
    ELSE CASE metric = "nominal" -> {Str("negative"), Str("positive"), Num(NaN)}
           [] metric = "ordinal" -> {Str("Low"), Str("High"), Str("low"), Num(NaN)}
           [] OTHER -> {Num(Zero), Num(NaN)}

\* The parameters of the calls preprocess_data(df=, text_col=, annotator_cols=,
\* missing_value_strategy=, metric=) and process_dataframe(df, data_type) of a
\* family: the metrics, the shapes <<annotator columns, units>> and the number
\* of deviating cells of the tables, the strategies, and whether df is None
\* (preprocess_data) or lacks its text column (process_dataframe).
PreprocessCalls(fam) ==
    IF fam = "labels"
    THEN [entries |-> {"preprocess_data", "process_dataframe"},
          metrics |-> {"nominal", "ordinal", "interval", "categorical"},
          shapes |-> (2..MaxAnnotators) \X (2..MaxUnits), dev |-> MaxDeviations,
          strategies |-> {"ignore", "drop", "fill"}, frames |-> BOOLEAN]
    ELSE IF fam = "cache"
    THEN [entries |-> {"preprocess_data", "process_dataframe"},
          metrics |-> {"nominal"}, shapes |-> (2..MaxAnnotators) \X {2},
          dev |-> MaxDeviations, strategies |-> {"ignore"}, frames |-> {FALSE}]
    ELSE [entries |-> {"preprocess_data", "process_dataframe"},
          metrics |-> {"interval"}, shapes |-> MinShape, dev |-> 0,
          strategies |-> {"ignore"}, frames |-> {FALSE}]

\* The tables of the calls of update_reliability_matrix: current_df is a
\* coded table of two units.
CurrentFrame ==
    [columns |-> <<"text", "annotator1", "annotator2">>,
     index |-> <<0, 1>>,
     values |-> << <<Str("A"), Num(Zero), Num(One)>>,
                   <<Str("B"), Num(One), Num(NaN)>> >>]

MaxNewRows == 1

\* the cells of a column of new_data
NewCells(col) == IF col = "text" THEN {Str("A"), Str("C")} ELSE {Num(One), Num(NaN)}

\* The parameters of the calls update_reliability_matrix(current_df, new_data,
\* column_mapping, update_mode, update_type) of a family: the columns and the
\* numbers of rows of new_data, the text_col of the column mapping, and the
\* combinations <<update_mode, update_type>>.
UpdateCalls(fam) ==
    IF fam = "update"
    THEN [columns |-> {<<"text", "annotator1", "annotator2">>,
                       <<"text", "annotator_new_1">>,
                       <<"text", "annotator_new_1", "annotator_new_2">>,
                       <<"annotator_new_1">>},
          rows |-> 0..MaxNewRows,
          text_cols |-> {"text", "title"},
          modes |-> ({"manual"} \X {"None", "new_doc", "new_annotator",
                                    "new_doc_annotator", "new_task"})
                        \cup {<<"auto", "None">>}]
    ELSE [columns |-> {<<"text", "annotator1", "annotator2">>},
          rows |-> {0},
          text_cols |-> {"text"},
          modes |-> {<<"manual", "None">>}]

\* The parameters of the calls of a family, per entry point: the combinations
\* <<data type, weight_dict, ordinal_scale>>, the shapes <<annotators, units>>
\* and the number of deviating cells of the tables, and for compute_alpha
\* whether df is None, the config_path and the kind of column_mapping.
Family(fam) ==
    CASE fam = "engine" ->
        [ka |-> [combos |-> (DataTypeEnum \X WeightDicts \X {NoScale})
                            \cup {<<"ordinal", NoWeights, CodeScale>>,
                                  <<"ordinal", TestWeights, CodeScale>>},
                 shapes |-> Shapes(3, 3), dev |-> MaxDeviations],
         ca |-> [combos |-> {"nominal", "interval"} \X {NoWeights} \X {NoScale},
                 shapes |-> Shapes(3, 3), dev |-> 0, frames |-> {FALSE},
                 configs |-> {"None"}, kinds |-> {"object"}]]
      [] fam = "missing" ->
        [ka |-> [combos |-> {<<"nominal", TestWeights, NoScale>>,
                             <<"ratio", NoWeights, NoScale>>},
                 shapes |-> MinShape, dev |-> MaxDeviations + 1],
         ca |-> [combos |-> {<<"ordinal", HeavyWeights, NoScale>>},
                 shapes |-> MinShape, dev |-> MaxDeviations, frames |-> {FALSE},
                 configs |-> {"None"}, kinds |-> {"dict"}]]
      [] fam = "ratio" ->
        [ka |-> [combos |-> {"ratio"} \X {NoWeights, ZeroWeights} \X {NoScale},
                 shapes |-> Shapes(3, 3), dev |-> MaxDeviations],
         ca |-> [combos |-> {<<"ratio", NoWeights, NoScale>>},
                 shapes |-> Shapes(3, 3), dev |-> 0, frames |-> {FALSE},
                 configs |-> {"None"}, kinds |-> {"object"}]]
      [] fam = "shape" ->
        [ka |-> [combos |-> {"nominal", "ratio"} \X {NoWeights} \X {NoScale},
                 shapes |-> Shapes(2, 2), dev |-> MaxDeviations],
         ca |-> [combos |-> {<<"nominal", NoWeights, NoScale>>},
                 shapes |-> Shapes(2, 2), dev |-> 0, frames |-> {FALSE},
                 configs |-> {"None"}, kinds |-> {"None", "dict", "object"}]]
      [] fam = "fraction" ->
        [ka |-> [combos |-> {"interval", "ratio"} \X {NoWeights} \X {NoScale},
                 shapes |-> MinShape, dev |-> MaxDeviations],
         ca |-> [combos |-> {<<"interval", NoWeights, NoScale>>},
                 shapes |-> MinShape, dev |-> 0, frames |-> {FALSE},
                 configs |-> {"None"}, kinds |-> {"dict"}]]
      [] fam = "compute" ->
        [ka |-> [combos |-> {"nominal", "categorical"} \X {NoWeights} \X {NoScale},
                 shapes |-> Shapes(3, 3), dev |-> 0],
         ca |-> [combos |-> DataTypeStrings \X {NoWeights, TestWeights} \X {NoScale},
                 shapes |-> Shapes(2, 2), dev |-> 0, frames |-> BOOLEAN,
                 configs |-> {"None", "custom.yaml", "missing.yaml"},
                 kinds |-> {"None", "dict", "object"}]]
      [] fam = "weights" ->
        [ka |-> [combos |-> {"nominal"}
                            \X ({KeyWeights(k) : k \in FirstAnnotatorSpellings}
                                   \cup {NoWeights})
                            \X {NoScale},
                 shapes |-> MinShape, dev |-> 0],
         ca |-> [combos |-> {<<"nominal", TestWeights, NoScale>>},
                 shapes |-> MinShape, dev |-> 0, frames |-> {FALSE},
                 configs |-> {"None"}, kinds |-> {"dict"}]]
      [] fam = "mapping" ->
        [ka |-> [combos |-> {<<"nominal", NoWeights, NoScale>>,
                             <<"ordinal", NoWeights, LabelScale>>,
                             <<"ordinal", TestWeights, LabelScale>>},
                 shapes |-> MinShape, dev |-> MaxDeviations],
         ca |-> [combos |-> {<<"ordinal", NoWeights, LabelScale>>},
                 shapes |-> MinShape, dev |-> 0, frames |-> {FALSE},
                 configs |-> {"None"}, kinds |-> {"dict"}]]
      [] fam \in {"distance", "labels", "cache", "update"} ->
        [ka |-> [combos |-> {<<"nominal", NoWeights, NoScale>>},
                 shapes |-> MinShape, dev |-> 0],
         ca |-> [combos |-> {<<"nominal", NoWeights, NoScale>>},
                 shapes |-> MinShape, dev |-> 0, frames |-> {FALSE},
                 configs |-> {"None"}, kinds |-> {"dict"}]]

-----------------------------------------------------------------------------
(* Initial state: the freshly imported package, no call running.           *)

Idle ==
    /\ pc = "idle"
    /\ call = NoCall
    /\ error = "none"
    /\ steps = {}
    /\ data_type_enum = "none"
    /\ mapping = NoMapping
    /\ df = NoFrame
    /\ reliability_matrix = <<>>
    /\ weight_vector = <<>>
    /\ unit_idx = 1
    /\ observed_disagreement = Zero
    /\ per_category_obs_dis = EmptyDict
    /\ pairwise_counts = EmptyDict
    /\ total_pairable_values = 0
    /\ expected_disagreement = Zero
    /\ per_category_exp_dis = EmptyDict
    /\ results = NoResults

InitFamily(fam) ==
    /\ family = fam
    /\ CUSTOM_CONFIG = "None"
    /\ nominal_mappings = EmptyDict
    /\ ordinal_mappings = EmptyDict
    /\ reliability_mappings = NoMappings
    /\ pickle_storage = [matrix |-> NoFile, mappings |-> NoFile]
    /\ Idle

Init == InitFamily("engine")

InitMissing == InitFamily("missing")

InitRatio == InitFamily("ratio")

InitShape == InitFamily("shape")

InitCompute == InitFamily("compute")

InitFraction == InitFamily("fraction")

InitDistance == InitFamily("distance")

InitWeights == InitFamily("weights")

InitLabels == InitFamily("labels")

InitMapping == InitFamily("mapping")

InitCache == InitFamily("cache")

InitUpdate == InitFamily("update")

-----------------------------------------------------------------------------
(* Exceptions.                                                             *)

NoError == [type |-> "none", about |-> "none"]

Raise(type, about) == [type |-> type, about |-> about]

\* schema.py, ColumnMapping.validate_annotator_cols on a list of n names (n = -1: None)
validate_annotator_cols(n) ==
    IF n = -1 THEN NoError
    ELSE IF n < 3 THEN Raise("ValueError", "annotator_cols")
    ELSE NoError

-----------------------------------------------------------------------------
(* The client.                                                             *)

\* The client calls one of the two entry points.  A ColumnMapping object is
\* built by the client before the call, so its validator runs first.
Invoke(c) ==
    IF c.entry = "krippendorff_alpha"
    THEN /\ call' = c
         /\ pc' = "ka_begin"
         /\ error' = NoError
         /\ data_type_enum' = c.data_type
         /\ mapping' = c.mapping
         /\ df' = [index |-> c.index, values |-> c.df]
    ELSE /\ IF c.column_mapping.kind = "object"
               /\ validate_annotator_cols(c.column_mapping.annotator_cols) # NoError
            THEN /\ call' = [c EXCEPT !.entry = "ColumnMapping"]
                 /\ pc' = "error"
                 /\ error' = validate_annotator_cols(c.column_mapping.annotator_cols)
            ELSE /\ call' = c
                 /\ pc' = "ca_begin"
                 /\ error' = NoError
         /\ data_type_enum' = "none"
         /\ mapping' = NoMapping
         /\ df' = NoFrame

Call ==
    /\ pc = "idle"
    /\ \E entry \in {"krippendorff_alpha", "compute_alpha"} :
        LET F == IF entry = "krippendorff_alpha" THEN Family(family).ka ELSE Family(family).ca
        IN  \E combo \in F.combos, sh \in F.shapes :
            LET dt == combo[1]
                cells == CellValues(family, lower(dt)) \cup {NaN}
            IN  \E base \in [1..sh[2] -> cells], T \in SUBSET ((1..sh[1]) \X (1..sh[2])) :
                    /\ Cardinality(T) <= F.dev
                    /\ \E f \in [T -> cells] :
                        LET m == Matrix(sh[1], sh[2], base, f)
                        IN  IF entry = "krippendorff_alpha"
                            THEN \E idx \in Indexes(family, sh[1]), mp \in Mappings(family) :
                                    Invoke([KACall(dt, m, combo[2], combo[3])
                                               EXCEPT !.index = idx, !.mapping = mp])
                            ELSE \E none \in F.frames, cfg \in F.configs, kind \in F.kinds :
                                    Invoke(CACall(dt, m, combo[2], combo[3], none, cfg, kind))
    /\ steps' = {}
    /\ LocalsCleared
    /\ UNCHANGED process_state

\* The caller receives the result or the exception; the locals of the call die.
Return ==
    /\ pc \in {"done", "error", "finished"}
    /\ pc' = "idle"
    /\ call' = NoCall
    /\ error' = NoError
    /\ steps' = {}
    /\ data_type_enum' = "none"
    /\ mapping' = NoMapping
    /\ df' = NoFrame
    /\ LocalsCleared
    /\ UNCHANGED process_state

-----------------------------------------------------------------------------
(* compute_alpha (compute_alpha.py).                                       *)

\* constants.py load_custom_config: load_yaml raises for a missing or malformed
\* file, and only a loaded file becomes the active configuration
load_custom_config(config_path) ==
    IF config_path = "missing.yaml"
    THEN [error |-> Raise("FileNotFoundError", "config_path"), active |-> CUSTOM_CONFIG]
    ELSE [error |-> NoError, active |-> config_path]

\* lines 46-75: argument checks, configuration, column mapping, data type
compute_alpha_validate ==
    /\ pc = "ca_begin"
    /\ LET loaded == IF call.config_path # "None" THEN load_custom_config(call.config_path)
                     ELSE [error |-> NoError, active |-> CUSTOM_CONFIG]
           \* without a column mapping every non-text column is an annotator column
           inferred_annotator_cols == NumCols(call.df)
           column_error ==
               CASE call.column_mapping.kind = "None" ->
                        IF inferred_annotator_cols < MIN_ANNOTATORS_REQUIRED
                        THEN Raise("ValueError", "annotator_cols") ELSE NoError
                 [] call.column_mapping.kind = "dict" ->
                        validate_annotator_cols(call.column_mapping.annotator_cols)
                 [] OTHER -> NoError
           raised ==
               IF call.df_is_none THEN Raise("ValueError", "df")
               ELSE IF loaded.error # NoError THEN loaded.error
               ELSE IF column_error # NoError THEN column_error
               ELSE IF lower(call.data_type) \notin DataTypeEnum
                    THEN Raise("ValueError", "data_type")
               ELSE NoError
       IN  /\ error' = raised
           /\ pc' = IF raised = NoError THEN "ca_preprocess" ELSE "error"
           /\ CUSTOM_CONFIG' = IF call.df_is_none THEN CUSTOM_CONFIG ELSE loaded.active
           /\ steps' = IF ~call.df_is_none /\ call.config_path # "None"
                       THEN steps \cup {"load_custom_config"} ELSE steps
           /\ data_type_enum' = IF raised = NoError THEN lower(call.data_type) ELSE "none"
    /\ UNCHANGED <<family, reliability_mappings, pickle_storage, nominal_mappings, ordinal_mappings, call, mapping, df, reliability_matrix, weight_vector,
                   observed_state, expected_state, results>>

\* lines 77-95: preprocess_data codes the table, compute_reliability_matrix
\* turns it into the (annotator, unit) frame
compute_alpha_preprocess ==
    /\ pc = "ca_preprocess"
    /\ pc' = "ka_begin"
    /\ steps' = steps \cup {"preprocess_data", "compute_reliability_matrix"}
    /\ mapping' = IF data_type_enum \in {"nominal", "ordinal"} THEN call.mapping ELSE NoMapping
    /\ df' = [index |-> call.index, values |-> Transpose(call.df)]
    /\ UNCHANGED <<family, reliability_mappings, pickle_storage, nominal_mappings, ordinal_mappings, CUSTOM_CONFIG, call, error, data_type_enum, reliability_matrix,
                   weight_vector, observed_state, expected_state, results>>

\* a result in which the key of the engine stays whatever its value is
keep_none_scores(res) == res

\* lines 105-106: results.pop("per_category_scores") when its value is None
pop_none_scores(res) ==
    IF res.per_category_scores.isNone
    THEN [res EXCEPT !.keys = @ \ {"per_category_scores"}]
    ELSE res

\* lines 105-111: drop a None per_category_scores, restore the default configuration
compute_alpha_return ==
    /\ pc = "ca_return"
    /\ pc' = "done"
    /\ results' = pop_none_scores(results)
    /\ CUSTOM_CONFIG' = IF call.config_path # "None" THEN "None" ELSE CUSTOM_CONFIG
    /\ UNCHANGED <<family, reliability_mappings, pickle_storage, nominal_mappings, ordinal_mappings, call, error, steps, data_type_enum, mapping, df,
                   reliability_matrix, weight_vector, observed_state, expected_state>>

-----------------------------------------------------------------------------
(* krippendorff_alpha (metric.py).                                         *)

\* a shape check that rejects only when both dimensions are too small
shape_rejected_both(num_subjects, num_annotators) ==
    num_annotators < MIN_ANNOTATORS_REQUIRED /\ num_subjects < MIN_SUBJECTS_REQUIRED

\* line 395: the shape check; the first axis of the frame is unpacked as num_subjects
shape_rejected(num_subjects, num_annotators) ==
    num_annotators < MIN_ANNOTATORS_REQUIRED \/ num_subjects < MIN_SUBJECTS_REQUIRED

\* lines 392-414: numpy conversion, shape check, weight vector, distance function
krippendorff_alpha_begin ==
    /\ pc = "ka_begin"
    /\ LET matrix == df.values
           num_subjects == NumRows(matrix)
           num_annotators == NumCols(matrix)
           shape_ok == ~shape_rejected(num_subjects, num_annotators)
           raised == IF ~shape_ok THEN Raise("ValueError", "shape")
                     ELSE IF data_type_enum \notin DataTypeEnum
                          THEN Raise("ValueError", "unsupported data type")
                     ELSE NoError
       IN  /\ reliability_matrix' = matrix
           /\ weight_vector' = IF shape_ok THEN compute_weight_vector(df.index, call.weight_dict)
                               ELSE weight_vector
           /\ error' = raised
           /\ pc' = IF raised = NoError THEN "observed" ELSE "error"
           /\ steps' = steps \cup {"to_numpy", "shape_check"}
    /\ UNCHANGED <<family, reliability_mappings, pickle_storage, nominal_mappings, ordinal_mappings, CUSTOM_CONFIG, call, data_type_enum, mapping, df,
                   observed_state, expected_state, results>>

\* compute_observed_disagreement, lines 247-268: one iteration of the loop over the units
observed_unit ==
    /\ pc = "observed"
    /\ unit_idx <= NumCols(reliability_matrix)
    /\ LET annotator_values == Column(reliability_matrix, unit_idx)
           num_coders_per_unit == num_coders(annotator_values)
           unit_weight == _calculate_unit_weight(num_coders_per_unit)
           unit == _process_unit_pairs(annotator_values, weight_vector, data_type_enum,
                                       call.ordinal_scale, unit_weight)
       IN  IF num_coders_per_unit < 2
           THEN UNCHANGED <<observed_disagreement, per_category_obs_dis, pairwise_counts,
                            total_pairable_values>>
           ELSE /\ total_pairable_values' = total_pairable_values + num_coders_per_unit
                /\ observed_disagreement' = Add(observed_disagreement, unit.unit_disagreement)
                /\ per_category_obs_dis' = MergeDict(per_category_obs_dis, unit.per_category_dis)
                /\ pairwise_counts' = MergeDictInt(pairwise_counts, unit.pairwise_counts)
    /\ unit_idx' = unit_idx + 1
    /\ steps' = steps \cup {"compute_observed_disagreement"}
    /\ UNCHANGED <<family, reliability_mappings, pickle_storage, nominal_mappings, ordinal_mappings, pc, CUSTOM_CONFIG, call, error, data_type_enum, mapping, df,
                   reliability_matrix, weight_vector, expected_state, results>>

\* compute_observed_disagreement, lines 270-275: normalise by the pairable values
observed_finish ==
    /\ pc = "observed"
    /\ unit_idx > NumCols(reliability_matrix)
    /\ observed_disagreement' =
           IF total_pairable_values > 0
           THEN Div(observed_disagreement, FromInt(total_pairable_values))
           ELSE Zero
    /\ pc' = "expected"
    /\ steps' = steps \cup {"compute_observed_disagreement"}
    /\ UNCHANGED <<family, reliability_mappings, pickle_storage, nominal_mappings, ordinal_mappings, CUSTOM_CONFIG, call, error, data_type_enum, mapping, df,
                   reliability_matrix, weight_vector, unit_idx, per_category_obs_dis,
                   pairwise_counts, total_pairable_values, expected_state, results>>

\* lines 419-421: compute_expected_disagreement
expected ==
    /\ pc = "expected"
    /\ LET e == compute_expected_disagreement(reliability_matrix, data_type_enum,
                                              call.ordinal_scale)
       IN  /\ expected_disagreement' = e.expected_disagreement
           /\ per_category_exp_dis' = e.per_category_exp_dis
    /\ pc' = "aggregate"
    /\ steps' = steps \cup {"compute_expected_disagreement"}
    /\ UNCHANGED <<family, reliability_mappings, pickle_storage, nominal_mappings, ordinal_mappings, CUSTOM_CONFIG, call, error, data_type_enum, mapping, df,
                   reliability_matrix, weight_vector, observed_state, results>>

\* an alpha that divides by an expected disagreement of zero
overall_alpha_dividing(obs, exp) == IF Ge(exp, Zero) THEN Sub(One, Div(obs, exp)) ELSE One

\* line 428
overall_alpha(obs, exp) == IF Gt(exp, Zero) THEN Sub(One, Div(obs, exp)) ELSE One

\* lines 431-446: the returned dictionary
result_dict(obs, exp, per_category_scores, dt) ==
    [keys |-> {"alpha", "observed_disagreement", "expected_disagreement",
               "per_category_scores"},
     alpha |-> round(overall_alpha(obs, exp)),
     observed_disagreement |-> round(obs),
     expected_disagreement |-> round(exp),
     per_category_scores |->
         IF dt \in {"nominal", "ordinal"}
         THEN [isNone |-> FALSE,
               scores |-> [c \in DOMAIN per_category_scores |->
                   [observed_disagreement |->
                        round(per_category_scores[c].observed_disagreement),
                    expected_disagreement |->
                        round(per_category_scores[c].expected_disagreement)]]]
         ELSE [isNone |-> TRUE, scores |-> EmptyDict]]

\* lines 423-446: per-category scores, alpha, rounding
krippendorff_alpha_return ==
    /\ pc = "aggregate"
    /\ LET per_category_scores ==
               compute_per_category_scores(unique_values(reliability_matrix),
                   per_category_obs_dis, per_category_exp_dis, pairwise_counts, mapping)
       IN  results' = result_dict(observed_disagreement, expected_disagreement,
                                  per_category_scores, data_type_enum)
    /\ pc' = IF call.entry = "compute_alpha" THEN "ca_return" ELSE "done"
    /\ steps' = steps \cup {"compute_per_category_scores"}
    /\ UNCHANGED <<family, reliability_mappings, pickle_storage, nominal_mappings, ordinal_mappings, CUSTOM_CONFIG, call, error, data_type_enum, mapping, df,
                   reliability_matrix, weight_vector, observed_state, expected_state>>

-----------------------------------------------------------------------------
(* Direct calls of the distance functions (metric.py).                     *)

\* The client calls one of the four distance functions.
CallDistance ==
    /\ pc = "idle"
    /\ \E c \in DistanceCalls(family) :
        call' = [entry |-> c[1], a |-> c[2], b |-> c[3], ordinal_scale |-> c[4]]
    /\ pc' = "distance"
    /\ error' = NoError
    /\ steps' = {}
    /\ data_type_enum' = "none"
    /\ mapping' = NoMapping
    /\ df' = NoFrame
    /\ LocalsCleared
    /\ UNCHANGED process_state

\* The called distance function runs and returns a float or raises.
distance ==
    /\ pc = "distance"
    /\ LET r == distance_call(call.entry, call.a, call.b, call.ordinal_scale)
       IN  IF r.error # NoError
           THEN /\ pc' = "error"
                /\ error' = r.error
                /\ results' = results
           ELSE /\ pc' = "finished"
                /\ error' = error
                /\ results' = [keys |-> {"distance"}, distance |-> r.value]
    /\ steps' = steps \cup {call.entry}
    /\ UNCHANGED <<family, reliability_mappings, pickle_storage, nominal_mappings, ordinal_mappings, CUSTOM_CONFIG, call,
                   data_type_enum, mapping, df, reliability_matrix, weight_vector,
                   observed_state, expected_state>>

-----------------------------------------------------------------------------
(* preprocess_data (preprocessing.py) and compute_reliability_matrix       *)
(* (reliability.py).  During these calls df is the caller's DataFrame      *)
(* object, [columns, index, values], which preprocess_data codes in place. *)

\* The client calls preprocess_data or process_dataframe on a table; outside
\* the family "cache" it does so in a process that has coded no table yet.
CallTable ==
    /\ pc = "idle"
    /\ family # "cache" => (nominal_mappings = EmptyDict /\ ordinal_mappings = EmptyDict)
    /\ LET P == PreprocessCalls(family)
       IN  \E entry \in P.entries, metric \in P.metrics, sh \in P.shapes,
              strategy \in P.strategies, none \in P.frames :
            LET cells == LabelCells(family, metric)
            IN  \E base \in [1..sh[2] -> cells], T \in SUBSET ((1..sh[1]) \X (1..sh[2])) :
                    /\ Cardinality(T) <= P.dev
                    /\ \E f \in [T -> cells] :
                        LET frame == [columns |-> IndexOf(sh[1]),
                                      index |-> [u \in 1..sh[2] |-> u - 1],
                                      values |-> Transpose(Matrix(sh[1], sh[2], base, f))]
                        IN  IF entry = "preprocess_data"
                            THEN /\ call' = [entry |-> entry, df_is_none |-> none,
                                             df |-> IF none THEN NoFrame ELSE frame,
                                             text_col |-> "text",
                                             annotator_cols |-> frame.columns,
                                             missing_value_strategy |-> strategy,
                                             metric |-> metric]
                                 /\ df' = IF none THEN NoFrame ELSE frame
                                 /\ pc' = "pp_begin"
                            ELSE /\ strategy = "ignore"
                                 /\ call' = [entry |-> entry, df |-> frame,
                                             has_text |-> ~none, data_type |-> metric,
                                             as_dataframe |-> FALSE]
                                 /\ df' = frame
                                 /\ pc' = "pd_begin"
    /\ error' = NoError
    /\ steps' = {}
    /\ data_type_enum' = "none"
    /\ mapping' = NoMapping
    /\ LocalsCleared
    /\ UNCHANGED process_state

\* annotation_types of the AnnotationSchema preprocess_data returns
annotation_schema_of(c) ==
    [annotation_level |-> "sentence_level", data_type |-> c.metric,
     missing_value_strategy |-> c.missing_value_strategy]

\* preprocess_data, lines 245-297
preprocess_data ==
    /\ pc = "pp_begin"
    /\ IF call.df_is_none \/ call.metric \notin DataTypeEnum
       THEN /\ error' = Raise("ValueError", IF call.df_is_none THEN "df" ELSE "metric")
            /\ pc' = "error"
            /\ UNCHANGED <<df, nominal_mappings, ordinal_mappings, results>>
       ELSE LET st == code_columns([table |-> df.values,
                                    nominal_mappings |-> nominal_mappings,
                                    ordinal_mappings |-> ordinal_mappings],
                                   call.annotator_cols, 1, call.metric)
                coded == [df EXCEPT !.values = st.table]
                strategy == call.missing_value_strategy
                returned == IF strategy = "drop" THEN dropna(coded)
                            ELSE IF strategy = "fill"
                                 THEN [coded EXCEPT !.values = fill_table(coded.values)]
                            ELSE coded
                raised == validate_annotator_cols(Len(call.annotator_cols))
            IN  /\ df' = IF strategy = "fill" THEN returned ELSE coded
                /\ nominal_mappings' = st.nominal_mappings
                /\ ordinal_mappings' = st.ordinal_mappings
                /\ error' = raised
                /\ pc' = IF raised = NoError THEN "pp_done" ELSE "error"
                /\ results' =
                     IF raised # NoError THEN results
                     ELSE [keys |-> {"df", "column_mapping", "annotation_schema",
                                     "ordinal_mappings", "nominal_mappings"},
                           df |-> returned,
                           column_mapping |-> [text_col |-> call.text_col,
                                               annotator_cols |-> call.annotator_cols],
                           annotation_schema |-> annotation_schema_of(call),
                           ordinal_mappings |-> st.ordinal_mappings,
                           nominal_mappings |-> st.nominal_mappings]
    /\ steps' = steps \cup {"preprocess_data"}
    /\ UNCHANGED <<family, reliability_mappings, pickle_storage, CUSTOM_CONFIG, call, data_type_enum, mapping,
                   reliability_matrix, weight_vector, observed_state, expected_state>>

\* The client hands the preprocessed data to compute_reliability_matrix(df, column_mapping).
compute_reliability_matrix ==
    /\ pc = "pp_done"
    /\ LET annotator_cols == results.column_mapping.annotator_cols
           raised == IF Len(annotator_cols) = 0 THEN Raise("ValueError", "annotator_cols")
                     ELSE IF HoldsLabel(results.df.values)
                          THEN Raise("ValueError", "could not convert string to float")
                     ELSE NoError
       IN  /\ error' = raised
           /\ pc' = IF raised = NoError THEN "finished" ELSE "error"
           /\ reliability_matrix' =
                IF raised = NoError THEN compute_reliability_matrix_values(results.df.values)
                ELSE reliability_matrix
    /\ steps' = steps \cup {"compute_reliability_matrix"}
    /\ UNCHANGED <<family, reliability_mappings, pickle_storage, nominal_mappings, ordinal_mappings, CUSTOM_CONFIG, call,
                   data_type_enum, mapping, df, weight_vector, observed_state,
                   expected_state, results>>

-----------------------------------------------------------------------------
(* process_dataframe (data_handler.py).                                    *)

\* the labels of all annotator columns together
all_labels(table) ==
    UNION {{table[u][c].s : c \in {x \in 1..Len(table[u]) : table[u][x].kind = "str"}} :
              u \in 1..Len(table)}

\* x.astype(str).map(label_mapping_dict).fillna(x) on every annotator column:
\* a label becomes its code, every other cell stays as it is
apply_label_mapping(table, items) ==
    [u \in 1..Len(table) |-> [c \in 1..Len(table[u]) |->
        IF table[u][c].kind = "str" /\ HasKey(items, table[u][c].s)
        THEN Num(CodeOf(items, table[u][c].s))
        ELSE table[u][c]]]

\* {v: k for k, v in label_mapping_dict.items()}
value_to_label(items) == [i \in 1..Len(items) |-> [k |-> items[i].v, v |-> items[i].k]]

\* process_dataframe, lines 203-260
process_dataframe ==
    /\ pc = "pd_begin"
    /\ LET raised == IF Len(df.values) = 0 THEN Raise("ValueError", "empty")
                     ELSE IF ~call.has_text THEN Raise("ValueError", "text")
                     ELSE IF Len(df.columns) = 0 THEN Raise("ValueError", "annotator")
                     ELSE NoError
           categorical == call.data_type \in {"nominal", "ordinal"}
           label_mapping_dict == IF categorical
                                 THEN enumerate_mapping(sorted(all_labels(df.values)))
                                 ELSE <<>>
           coded == IF categorical THEN apply_label_mapping(df.values, label_mapping_dict)
                    ELSE df.values
       IN  /\ error' = raised
           /\ pc' = IF raised = NoError THEN "finished" ELSE "error"
           /\ df' = IF raised = NoError THEN [df EXCEPT !.values = coded] ELSE df
           /\ results' =
                IF raised # NoError THEN results
                ELSE [keys |-> {"annotations", "data_type", "label_mapping"},
                      annotations |-> coded,
                      data_type |-> call.data_type,
                      label_mapping |-> [label_to_value |-> label_mapping_dict,
                                         value_to_label |->
                                             value_to_label(label_mapping_dict)]]
    /\ steps' = steps \cup {"process_dataframe"}
    /\ UNCHANGED <<family, reliability_mappings, pickle_storage, nominal_mappings, ordinal_mappings, CUSTOM_CONFIG, call,
                   data_type_enum, mapping, reliability_matrix, weight_vector,
                   observed_state, expected_state>>

-----------------------------------------------------------------------------
(* update_reliability_matrix (reliability.py).  During the call df is the   *)
(* caller's current_df object.                                              *)

\* update_reliability_matrix(current_df, new_data, column_mapping, update_mode,
\* update_type) with the loaded matrix prev_df and the loaded mappings: the
\* exception raised, the table returned, whether it went through
\* save_reliability_matrix, and the caller's current_df after the call
update_reliability_matrix_of(c, prev_df, mappings, order) ==
    LET text_col == c.text_col
        InAliases(col) == col \in WORD_COLUMN_ALIASES
        word_cols == SelectSeq(c.current_df.columns, InAliases)
        word_col == IF Len(word_cols) = 0 THEN <<>> ELSE <<word_cols[1]>>
        Outcome(err, frame, saved, cur) ==
            [error |-> err, updated_df |-> frame, saved |-> saved, current_df |-> cur]
        update_type ==
            IF c.update_mode # "auto" THEN c.update_type
            ELSE IF Elements(c.new_data.columns) = Elements(prev_df.columns) THEN "new_doc"
            ELSE IF Elements(c.new_data.columns) \ Elements(prev_df.columns) # {}
                 THEN "new_annotator"
            ELSE "new_doc_annotator"
    IN  IF c.update_mode = "manual" /\ c.update_type = "None"
        THEN Outcome(Raise("ValueError", "update_type"), EmptyFrame, FALSE, c.current_df)
        ELSE IF detect_new_labels(c.new_data, mappings)
        THEN Outcome(NoError, c.new_data, FALSE, c.current_df)
        ELSE IF c.update_mode = "auto" /\ empty(prev_df)
        THEN Outcome(NoError, c.new_data, FALSE, c.current_df)
        ELSE CASE update_type = "new_task" ->
                    Outcome(NoError, c.new_data, TRUE, c.current_df)
               [] update_type = "new_doc" ->
                    Outcome(NoError, concat(c.current_df, c.new_data, TRUE), TRUE,
                            c.current_df)
               [] update_type = "new_annotator" ->
                    LET merge_cols == (IF HasColumn(c.current_df, text_col)
                                       THEN <<text_col>> ELSE <<>>) \o word_col
                    IN  IF Len(merge_cols) = 0
                        THEN Outcome(Raise("ValueError", "merge_cols"), EmptyFrame, FALSE,
                                     c.current_df)
                        ELSE IF \E k \in 1..Len(merge_cols) :
                                    ~HasColumn(c.new_data, merge_cols[k])
                        THEN Outcome(Raise("KeyError", "merge_cols"), EmptyFrame, FALSE,
                                     c.current_df)
                        ELSE Outcome(NoError, merge(c.current_df, c.new_data, merge_cols),
                                     TRUE, c.current_df)
               [] update_type = "new_doc_annotator" ->
                    LET r == new_doc_annotator(c.current_df, c.new_data,
                                               <<text_col>> \o word_col, order)
                    IN  Outcome(NoError, r.updated_df, TRUE, r.current_df)

\* The client calls update_reliability_matrix.
CallUpdate ==
    /\ pc = "idle"
    /\ LET U == UpdateCalls(family)
       IN  \E cols \in U.columns, n \in U.rows, text_col \in U.text_cols, mode \in U.modes :
            LET cells == UNION {NewCells(cols[c]) : c \in 1..Len(cols)}
                rows == {row \in [1..Len(cols) -> cells] :
                            \A c \in 1..Len(cols) : row[c] \in NewCells(cols[c])}
            IN  \E vals \in [1..n -> rows] :
                    call' = [entry |-> "update_reliability_matrix",
                             current_df |-> CurrentFrame,
                             new_data |-> [columns |-> cols, index |-> RangeIndex(n),
                                           values |-> vals],
                             text_col |-> text_col,
                             update_mode |-> mode[1],
                             update_type |-> mode[2]]
    /\ df' = CurrentFrame
    /\ pc' = "update"
    /\ error' = NoError
    /\ steps' = {}
    /\ data_type_enum' = "none"
    /\ mapping' = NoMapping
    /\ LocalsCleared
    /\ UNCHANGED process_state

\* update_reliability_matrix, lines 120-186, with load_reliability_matrix,
\* load_mappings and save_reliability_matrix
update_reliability_matrix ==
    /\ pc = "update"
    /\ LET rejected == call.update_mode = "manual" /\ call.update_type = "None"
           loaded == IF ~rejected /\ pickle_storage.mappings.exists
                     THEN pickle_storage.mappings.object
                     ELSE reliability_mappings
           prev_df == IF pickle_storage.matrix.exists THEN pickle_storage.matrix.object
                      ELSE EmptyFrame
       IN  \E order \in Orders(new_columns(call.current_df, call.new_data)) :
            LET r == update_reliability_matrix_of(call, prev_df, loaded, order)
            IN  /\ reliability_mappings' = loaded
                /\ pickle_storage' =
                     IF r.saved /\ ~empty(r.updated_df)
                     THEN [matrix |-> File(r.updated_df), mappings |-> File(loaded)]
                     ELSE pickle_storage
                /\ df' = r.current_df
                /\ error' = r.error
                /\ pc' = IF r.error = NoError THEN "finished" ELSE "error"
                /\ results' = IF r.error # NoError THEN results
                              ELSE [keys |-> {"df"}, df |-> r.updated_df]
    /\ steps' = steps \cup {"update_reliability_matrix"}
    /\ UNCHANGED <<family, CUSTOM_CONFIG, nominal_mappings, ordinal_mappings, call,
                   data_type_enum, mapping, reliability_matrix, weight_vector,
                   observed_state, expected_state>>

-----------------------------------------------------------------------------
\* The interpreter is restarted: the module globals are those of a fresh import.
Restart ==
    /\ pc = "idle"
    /\ CUSTOM_CONFIG' = "None"
    /\ nominal_mappings' = EmptyDict
    /\ ordinal_mappings' = EmptyDict
    /\ reliability_mappings' = NoMappings
    /\ UNCHANGED <<family, pickle_storage, pc, call, error, steps, data_type_enum, mapping, df,
                   reliability_matrix, weight_vector, observed_state, expected_state,
                   results>>

-----------------------------------------------------------------------------

Next ==
    \/ Call
    \/ Return
    \/ compute_alpha_validate
    \/ compute_alpha_preprocess
    \/ compute_alpha_return
    \/ krippendorff_alpha_begin
    \/ observed_unit
    \/ observed_finish
    \/ expected
    \/ krippendorff_alpha_return
    \/ CallDistance
    \/ distance
    \/ CallTable
    \/ preprocess_data
    \/ compute_reliability_matrix
    \/ process_dataframe
    \/ CallUpdate
    \/ update_reliability_matrix
    \/ Restart

Spec == Init /\ [][Next]_vars

SpecMissing == InitMissing /\ [][Next]_vars

SpecRatio == InitRatio /\ [][Next]_vars

SpecShape == InitShape /\ [][Next]_vars

SpecCompute == InitCompute /\ [][Next]_vars

SpecFraction == InitFraction /\ [][Next]_vars

SpecDistance == InitDistance /\ [][Next]_vars

SpecWeights == InitWeights /\ [][Next]_vars

SpecLabels == InitLabels /\ [][Next]_vars

SpecMapping == InitMapping /\ [][Next]_vars

SpecCache == InitCache /\ [][Next]_vars

SpecUpdate == InitUpdate /\ [][Next]_vars

-----------------------------------------------------------------------------
(* Helpers of the properties.                                              *)

AbsQ(x) == IF x.n < 0 THEN Neg(x) ELSE x

\* the sum of the values of a function with a finite domain
RECURSIVE SumFn(_)
SumFn(f) ==
    IF DOMAIN f = {} THEN Zero
    ELSE LET x == CHOOSE x \in DOMAIN f : TRUE
         IN  Add(f[x], SumFn([y \in DOMAIN f \ {x} |-> f[y]]))

\* krippendorff_alpha has returned its dictionary (to the client or to compute_alpha)
Returned == pc \in {"ca_return", "done"}

\* both disagreements of the running call are final
Computed == pc \in {"aggregate", "ca_return", "done"}

DisagreementSteps == {"compute_observed_disagreement", "compute_expected_disagreement"}

MatrixSteps == {"preprocess_data", "compute_reliability_matrix", "to_numpy"}

\* m_u of the unit u of a matrix
m_u(matrix, u) == Cardinality({a \in 1..NumRows(matrix) : ~isnan(matrix[a][u])})

\* the annotators that coded unit u
Coders(matrix, u) == {a \in 1..NumRows(matrix) : ~isnan(matrix[a][u])}

\* all annotators give the identical value on every unit
PerfectAgreement(matrix) ==
    \A u \in 1..NumCols(matrix) : \A a, b \in 1..NumRows(matrix) :
        ~isnan(matrix[a][u]) /\ matrix[a][u] = matrix[b][u]

ValidShape(matrix) ==
    NumRows(matrix) >= MIN_ANNOTATORS_REQUIRED /\ NumCols(matrix) >= MIN_SUBJECTS_REQUIRED

-----------------------------------------------------------------------------
(* C1: krippendorff_alpha returns alpha = 1 - D_o/D_e (rounded to three    *)
(* places, D_o and D_e being the unrounded disagreements of the call)      *)
(* whenever D_e > 0, and alpha = 1.0 whenever D_e is not greater than 0.   *)
(* For finite disagreements the quotient is checked by cross               *)
(* multiplication: |alpha * D_e - (D_e - D_o)| <= D_e / 2000 and alpha is  *)
(* a multiple of 1/1000.                                                   *)
C1_AlphaFromDisagreements ==
    Returned =>
        LET Do == observed_disagreement
            De == expected_disagreement
            alpha == results.alpha
        IN  IF Gt(De, Zero)
            THEN IF IsFinite(Do) /\ IsFinite(De)
                 THEN /\ IsFinite(alpha)
                      /\ 1000 % alpha.d = 0
                      /\ Le(Mul(FromInt(2000), AbsQ(Sub(Mul(alpha, De), Sub(De, Do)))), De)
                 ELSE IF IsFinite(Do) THEN alpha = One
                 ELSE isnan(alpha)
            ELSE alpha = One

\* a call returned with D_e > 0 and an alpha that needed rounding, another with D_e = 0
C1_Witness ==
    /\ Returned
    /\ Gt(expected_disagreement, Zero)
    /\ Gt(observed_disagreement, Zero)
    /\ results.alpha # Sub(One, Div(observed_disagreement, expected_disagreement))
    /\ results.alpha = round(Sub(One, Div(observed_disagreement, expected_disagreement)))

(* C2: for a matrix of at least 3 annotators and 3 units in which all      *)
(* annotators give the identical value on every unit, whatever the data    *)
(* type and the annotator weights, krippendorff_alpha returns alpha = 1.0  *)
(* and observed_disagreement = 0.0.                                        *)
C2_PerfectAgreement ==
    (Returned /\ ValidShape(reliability_matrix) /\ PerfectAgreement(reliability_matrix)) =>
        /\ results.alpha = One
        /\ results.observed_disagreement = Zero

\* perfect agreement on units of different values, weighted annotators, ratio data
C2_Witness ==
    /\ Returned
    /\ PerfectAgreement(reliability_matrix)
    /\ data_type_enum = "ratio"
    /\ call.weight_dict = HeavyWeights
    /\ Gt(expected_disagreement, Zero)
    /\ results.alpha = One

(* C3: for every valid matrix and every data type the alpha returned by    *)
(* krippendorff_alpha satisfies alpha <= 1.0.                              *)
C3_AlphaAtMostOne == Returned => Le(results.alpha, One)

(* C4: for every valid input (any data type, default weights or supplied   *)
(* non-negative weights) the returned alpha satisfies alpha >= -1.0.       *)
C4_AlphaAtLeastMinusOne == Returned => Ge(results.alpha, FromInt(-1))

(* C5: for every valid matrix the observed and the expected disagreement   *)
(* computed by the engine are both non-negative and neither is NaN.        *)
C5_DisagreementsNonNegative ==
    Computed =>
        /\ Ge(observed_disagreement, Zero)
        /\ Ge(expected_disagreement, Zero)

(* C6: krippendorff_alpha raises the shape ValueError before computing any *)
(* disagreement whenever the reliability matrix has fewer than 3           *)
(* annotators or fewer than 3 units; ColumnMapping rejects an explicit     *)
(* annotator column list of fewer than 3 entries before any matrix is      *)
(* built; a matrix of at least 3 annotators and 3 units is never rejected  *)
(* for its shape.                                                          *)
C6_ShapeRejected ==
    /\ ("shape_check" \in steps /\ ~ValidShape(df.values)) =>
            /\ pc = "error"
            /\ error = Raise("ValueError", "shape")
            /\ steps \cap DisagreementSteps = {}
    /\ ("shape_check" \in steps /\ ValidShape(df.values)) => error.about # "shape"
    /\ (/\ call.entry \in {"compute_alpha", "ColumnMapping"}
        /\ call.column_mapping.kind \in {"dict", "object"}
        /\ call.column_mapping.annotator_cols \in 0..(MIN_ANNOTATORS_REQUIRED - 1)
        /\ pc # "ca_begin") =>
            /\ pc = "error"
            /\ steps \cap MatrixSteps = {}
            /\ \/ error = Raise("ValueError", "annotator_cols")
               \/ call.df_is_none
               \/ call.config_path = "missing.yaml"

\* a frame of 3 annotators and 2 units was rejected by krippendorff_alpha
C6_Witness ==
    /\ pc = "error"
    /\ call.entry = "krippendorff_alpha"
    /\ error = Raise("ValueError", "shape")
    /\ NumRows(df.values) = 3
    /\ NumCols(df.values) = 2

-----------------------------------------------------------------------------
\* the spellings of the four data types, in any letter case, among DataTypeStrings
ValidSpellings == {"nominal", "NOMINAL", "Ordinal", "interval", "ratio"}

\* compute_alpha was entered and its argument checks have run
Validated == call.entry = "compute_alpha" /\ pc # "ca_begin"

\* the checks compute_alpha makes before it looks at data_type all pass
EarlierChecksPass ==
    /\ ~call.df_is_none
    /\ call.config_path # "missing.yaml"
    /\ CASE call.column_mapping.kind = "None" -> NumCols(call.df) >= MIN_ANNOTATORS_REQUIRED
         [] OTHER -> call.column_mapping.annotator_cols >= 3

(* C7, as claimed: compute_alpha raises a ValueError naming the invalid    *)
(* data_type whenever the declared data type is not one of nominal,        *)
(* ordinal, interval, ratio (case-insensitively), before any               *)
(* preprocessing, matrix construction or disagreement computation.         *)
C7_InvalidDataTypeNamed ==
    (Validated /\ call.data_type \notin ValidSpellings) =>
        /\ pc = "error"
        /\ error = Raise("ValueError", "data_type")
        /\ steps \cap (MatrixSteps \cup DisagreementSteps) = {}

(* C7, amended: a call of compute_alpha with an invalid data type always   *)
(* ends in an error raised before any preprocessing, matrix construction   *)
(* or disagreement computation; the error is the ValueError naming the     *)
(* data_type when df is given, the configuration file loads and the        *)
(* column mapping has at least 3 annotator columns, and the error of the   *)
(* earlier failing check otherwise.  A data type spelled in any letter     *)
(* case is never rejected.                                                 *)
C7_InvalidDataTypeRejected ==
    /\ (Validated /\ call.data_type \notin ValidSpellings) =>
            /\ pc = "error"
            /\ steps \cap (MatrixSteps \cup DisagreementSteps) = {}
            /\ EarlierChecksPass <=> error = Raise("ValueError", "data_type")
    /\ (Validated /\ call.data_type \in ValidSpellings) => error.about # "data_type"

\* an invalid data type in mixed case was rejected by name after the configuration loaded
C7_Witness ==
    /\ pc = "error"
    /\ call.entry = "compute_alpha"
    /\ call.data_type = "Invalid_Type"
    /\ call.config_path = "custom.yaml"
    /\ error = Raise("ValueError", "data_type")
    /\ steps = {"load_custom_config"}

(* C8: the result of compute_alpha contains the key per_category_scores, a *)
(* mapping from category to {observed_disagreement, expected_disagreement},*)
(* if and only if the data type is nominal or ordinal; for interval and    *)
(* ratio the key is absent.                                                *)
C8_PerCategoryKey ==
    (pc = "done" /\ call.entry = "compute_alpha") =>
        /\ "per_category_scores" \in results.keys
                <=> lower(call.data_type) \in {"nominal", "ordinal"}
        /\ "per_category_scores" \in results.keys =>
                /\ ~results.per_category_scores.isNone
                /\ \A c \in DOMAIN results.per_category_scores.scores :
                        DOMAIN results.per_category_scores.scores[c]
                            = {"observed_disagreement", "expected_disagreement"}
        /\ {"alpha", "observed_disagreement", "expected_disagreement"} \subseteq results.keys

\* compute_alpha returned an interval result without the key
C8_Witness ==
    /\ pc = "done"
    /\ call.entry = "compute_alpha"
    /\ call.data_type = "interval"
    /\ results.keys = {"alpha", "observed_disagreement", "expected_disagreement"}

-----------------------------------------------------------------------------
\* weight[a]: the weight supplied for the annotator of row a, 1.0 if none is
SuppliedWeight(a) ==
    IF call.weight_dict.given /\ df.index[a] \in DOMAIN call.weight_dict.w
    THEN call.weight_dict.w[df.index[a]]
    ELSE One

\* the units with at least two coders
PairableUnits(matrix) == {u \in 1..NumCols(matrix) : m_u(matrix, u) >= 2}

\* the unordered pairs of coders of the pairable units
CoderPairs(matrix) ==
    {p \in PairableUnits(matrix) \X (1..NumRows(matrix)) \X (1..NumRows(matrix)) :
        /\ p[2] < p[3]
        /\ p[2] \in Coders(matrix, p[1])
        /\ p[3] \in Coders(matrix, p[1])}

\* D_o as the claim writes it
ClaimedDo(matrix) ==
    IF PairableUnits(matrix) = {} THEN Zero
    ELSE Div(SumFn([p \in CoderPairs(matrix) |->
                      Div(Mul(Mul(SuppliedWeight(p[2]), SuppliedWeight(p[3])),
                              distance_fn(data_type_enum, call.ordinal_scale,
                                          matrix[p[2]][p[1]], matrix[p[3]][p[1]])),
                          FromInt(m_u(matrix, p[1]) - 1))]),
             FromInt(SumFn([u \in PairableUnits(matrix) |-> FromInt(m_u(matrix, u))]).n))

(* C9: compute_observed_disagreement returns D_o = (sum over the units u   *)
(* with m_u >= 2 and the unordered pairs {a, b} of coders of u of          *)
(* weight[a] * weight[b] * distance(value_a, value_b) / (m_u - 1)) divided  *)
(* by (sum of m_u over those units), an annotator without a supplied       *)
(* weight having weight 1.0; it returns 0 when no unit has m_u >= 2.       *)
C9_ObservedDisagreement ==
    (pc \in {"expected", "aggregate", "ca_return", "done"}) =>
        observed_disagreement = ClaimedDo(reliability_matrix)

\* the call had a unit of two coders and a unit of three, weights, and disagreement
C9_Witness ==
    /\ pc = "expected"
    /\ call.weight_dict = TestWeights
    /\ \E u, v \in 1..NumCols(reliability_matrix) :
            m_u(reliability_matrix, u) = 2 /\ m_u(reliability_matrix, v) = 3
    /\ Gt(observed_disagreement, Zero)
    /\ observed_disagreement.d > 1

\* the sum of the counts of a pairwise_counts dictionary
CountTotal(counts) == SumFn([c \in DOMAIN counts |-> FromInt(counts[c])]).n

(* C10: an iteration of the loop over the units leaves the numerator, the  *)
(* per-category sums and counts and the pairable-value denominator         *)
(* unchanged when the unit has fewer than 2 non-missing values, and raises *)
(* nothing; for a unit with exactly 2 non-missing values it adds the one   *)
(* pairwise term weight[a] * weight[b] * distance(value_a, value_b), with  *)
(* normalizer 1, to the numerator and 2 to the denominator.                *)
C10_UnitContribution ==
    [][(pc = "observed" /\ unit_idx' = unit_idx + 1) =>
        LET m == m_u(reliability_matrix, unit_idx)
            coders == Coders(reliability_matrix, unit_idx)
        IN  /\ m < 2 =>
                /\ UNCHANGED <<observed_disagreement, per_category_obs_dis, pairwise_counts,
                               total_pairable_values>>
                /\ pc' = "observed"
                /\ error' = NoError
            /\ m = 2 =>
                /\ \E a, b \in coders :
                    /\ a < b
                    /\ observed_disagreement' =
                         Add(observed_disagreement,
                             Mul(Mul(SuppliedWeight(a), SuppliedWeight(b)),
                                 distance_fn(data_type_enum, call.ordinal_scale,
                                             reliability_matrix[a][unit_idx],
                                             reliability_matrix[b][unit_idx])))
                /\ total_pairable_values' = total_pairable_values + 2
                /\ data_type_enum \in {"nominal", "ordinal"} =>
                        CountTotal(pairwise_counts') = CountTotal(pairwise_counts) + 2]_vars

\* a unit with fewer than two values was skipped and a unit with two different values was added
C10_Witness ==
    /\ pc = "observed"
    /\ unit_idx = 3
    /\ m_u(reliability_matrix, 1) < 2
    /\ m_u(reliability_matrix, 2) = 2
    /\ total_pairable_values = 2
    /\ Gt(observed_disagreement, Zero)
    /\ observed_disagreement # One

-----------------------------------------------------------------------------
\* the distinct non-missing values of a matrix
ObservedValues(matrix) == {matrix[c[1]][c[2]] : c \in NonNanCells(matrix)}

\* freq(v): the share of the non-missing cells that hold v
Freq(matrix, v) == Q(CountOf(matrix, v), Cardinality(NonNanCells(matrix)))

\* D_e as the claim writes it
ClaimedDe(matrix) ==
    SumFn([p \in ObservedValues(matrix) \X ObservedValues(matrix) |->
              Mul(distance_fn(data_type_enum, call.ordinal_scale, p[1], p[2]),
                  Mul(Freq(matrix, p[1]), Freq(matrix, p[2])))])

(* C11: compute_expected_disagreement returns D_e = the sum over all       *)
(* ordered pairs (v1, v2) of observed values of distance(v1, v2) *         *)
(* freq(v1) * freq(v2), freq(v) being the number of non-missing cells      *)
(* equal to v divided by the number of non-missing cells, for every        *)
(* matrix of every data type, interval and ratio matrices with values      *)
(* that are not whole numbers included.                                    *)
C11_ExpectedDisagreement ==
    Computed => expected_disagreement = ClaimedDe(reliability_matrix)

\* the sum of the per-category observed_disagreement scores of a result
PerCategoryObservedSum(res) ==
    SumFn([c \in DOMAIN res.per_category_scores.scores |->
              res.per_category_scores.scores[c].observed_disagreement])

\* the rounding tolerance of a sum of n scores compared with a rounded total
RoundingTolerance(n) == Q(n + 1, 1000)

(* C12: for nominal and ordinal data the sum over all categories of the    *)
(* per-category observed_disagreement scores of per_category_scores        *)
(* equals the observed_disagreement of the same call, within the rounding  *)
(* tolerance.                                                              *)
C12_PerCategorySum ==
    (Returned /\ data_type_enum \in {"nominal", "ordinal"}) =>
        Le(AbsQ(Sub(PerCategoryObservedSum(results), results.observed_disagreement)),
           RoundingTolerance(Cardinality(DOMAIN results.per_category_scores.scores)))

\* preprocess_data has returned its PreprocessedData
Preprocessed == pc \in {"pp_done", "finished"} /\ call.entry = "preprocess_data"

\* compute_reliability_matrix has returned the matrix of the preprocessed table
MatrixBuilt == pc = "finished" /\ call.entry = "preprocess_data"

\* process_dataframe has returned its DataSchema
DataframeProcessed == pc = "finished" /\ call.entry = "process_dataframe"

Categorical == {"nominal", "ordinal"}

(* C13: after preprocess_data codes a nominal or ordinal table, every      *)
(* label has the same integer code in every annotator column: two cells    *)
(* holding the same label, in the same or in different annotator columns,  *)
(* receive equal codes.                                                    *)
C13_SameCodeInEveryColumn ==
    (Preprocessed /\ call.metric \in Categorical) =>
        \A u1 \in 1..Len(call.df.values), u2 \in 1..Len(call.df.values) :
            \A c1 \in 1..Len(call.annotator_cols), c2 \in 1..Len(call.annotator_cols) :
                (/\ call.df.values[u1][c1].kind = "str"
                 /\ call.df.values[u1][c1] = call.df.values[u2][c2]) =>
                    df.values[u1][c1] = df.values[u2][c2]

\* no two items of a dict share a label or a code
Injective(items) ==
    \A i \in 1..Len(items), j \in 1..Len(items) :
        i # j => (items[i].k # items[j].k /\ items[i].v # items[j].v)

\* the dict codes every one of the labels, and reverse_map returns the label of its code
RecoversLabels(items, labels) ==
    /\ Injective(items)
    /\ \A label \in labels :
        /\ HasKey(items, label)
        /\ reverse_map(CodeOf(items, label), [given |-> TRUE, items |-> items])
               = [kind |-> "label", s |-> label]

\* the dict preprocess_data built for annotator column c
BuiltMapping(c) ==
    IF call.metric = "nominal" THEN results.nominal_mappings[call.annotator_cols[c]]
    ELSE results.ordinal_mappings[call.annotator_cols[c]]

CellsWhere(table, Test(_)) ==
    {p \in (1..Len(table)) \X (1..MaxAnnotators + MaxUnits) :
        p[2] <= Len(table[p[1]]) /\ Test(table[p[1]][p[2]])}

(* C15: for nominal and ordinal data under the default 'ignore' strategy   *)
(* an annotator cell that is missing is represented in the coded table and *)
(* in the reliability matrix as the missing sentinel NaN and never as a    *)
(* category code: the coded table has NaN wherever the input has a missing *)
(* cell, and the matrix has as many NaN entries as the input has missing   *)
(* cells.                                                                  *)
C15_MissingStaysMissing ==
    (/\ MatrixBuilt
     /\ call.metric \in Categorical
     /\ call.missing_value_strategy = "ignore") =>
        /\ \A p \in CellsWhere(call.df.values, isna) : isna(results.df.values[p[1]][p[2]])
        /\ Cardinality(CellsWhere(reliability_matrix, isnan))
               = Cardinality(CellsWhere(call.df.values, isna))

(* C16: compute_reliability_matrix returns a matrix in the axis order      *)
(* (annotator, unit): entry [a][u] is annotator a's coded value for unit   *)
(* u, with one row per annotator column and one column per unit of the     *)
(* table it is given, no unit dropped.                                     *)
C16_MatrixAxisOrder ==
    MatrixBuilt =>
        LET table == results.df.values
        IN  /\ Len(reliability_matrix) = Len(results.column_mapping.annotator_cols)
            /\ \A a \in 1..Len(reliability_matrix) :
                /\ Len(reliability_matrix[a]) = Len(table)
                /\ \A u \in 1..Len(table) : reliability_matrix[a][u] = table[u][a].v

(* C19: for ratio data the singular case of ratio_distance (a + b = 0 with *)
(* a # b) never makes the result undefined: for every valid ratio matrix,  *)
(* the ones holding two such values included, the alpha returned by        *)
(* krippendorff_alpha is a number, not NaN.                                *)
C19_SingularRatioAlphaIsNumber ==
    (Returned /\ data_type_enum = "ratio") => ~isnan(results.alpha)

\* a direct call of a distance function has returned
DistanceReturned == pc = "finished" /\ call.entry \in DistanceFunctions

\* rank(a): the 0-based position of a in the scale
Rank(scale, a) ==
    LET at == {i \in 1..Len(scale) : PyEq(scale[i], a)}
    IN  (CHOOSE i \in at : \A j \in at : i <= j) - 1

(* C17: ordinal_distance(a, b, scale) equals (rank(a) - rank(b))^2, rank   *)
(* being the 0-based position in scale, whenever a and b are both members  *)
(* of scale, and equals nominal_distance(a, b) (0 if a == b else 1)        *)
(* whenever scale is not given or either value is absent from it; with the *)
(* scale [low, medium, high, very high] the distance low-high is 4.0 and   *)
(* low-medium is 1.0.                                                      *)
C17_OrdinalDistance ==
    (DistanceReturned /\ call.entry = "ordinal_distance") =>
        LET a == call.a
            b == call.b
            scale == call.ordinal_scale
            InBoth == scale.given /\ Contains(scale.items, a) /\ Contains(scale.items, b)
        IN  /\ InBoth =>
                   results.distance =
                       FromInt((Rank(scale.items, a) - Rank(scale.items, b))
                                   * (Rank(scale.items, a) - Rank(scale.items, b)))
            /\ ~InBoth => results.distance = (IF PyEq(a, b) THEN Zero ELSE One)
            /\ (scale = LabelScale /\ a = Str("low") /\ b = Str("high")) =>
                   results.distance = FromInt(4)
            /\ (scale = LabelScale /\ a = Str("low") /\ b = Str("medium")) =>
                   results.distance = One

\* ordinal_distance("low", "high", [low, medium, high, very high]) has returned 4.0
C17_Witness ==
    /\ DistanceReturned
    /\ call.entry = "ordinal_distance"
    /\ call.ordinal_scale = LabelScale
    /\ call.a = Str("low")
    /\ call.b = Str("high")
    /\ results.distance = FromInt(4)

(* C18: each of the four distance functions returns a non-negative         *)
(* dissimilarity for every pair of coded numeric values (positive, zero or *)
(* negative), without raising.                                             *)
C18_DistanceNonNegative ==
    (/\ pc \in {"finished", "error"}
     /\ call.entry \in DistanceFunctions
     /\ call.a.kind = "num"
     /\ call.b.kind = "num") =>
        (pc = "finished" /\ Ge(results.distance, Zero))

\* the logical annotator a name denotes: the name in lower case with the
\* separator between the prefix and the identifier removed
LogicalAnnotator(name) ==
    IF name \in {"annotator1", "Annotator_1", "annotator 1"} THEN "annotator1" ELSE name

\* krippendorff_alpha has computed the weight vector of a call
WeightsComputed ==
    /\ pc \in {"observed", "expected", "aggregate", "ca_return", "done"}
    /\ call.weight_dict.given

(* C20: a weight supplied in weight_dict applies to an annotator whenever  *)
(* the key and the annotator's column name denote the same logical         *)
(* annotator after name normalization: a key that differs from the column  *)
(* name only in letter case or in the separator between prefix and         *)
(* identifier ("Annotator_1" versus "annotator 1") gives that annotator    *)
(* the supplied weight rather than the default 1.0.                        *)
C20_WeightKeyNormalized ==
    WeightsComputed =>
        \A a \in 1..Len(df.index), key \in DOMAIN call.weight_dict.w :
            LogicalAnnotator(key) = LogicalAnnotator(df.index[a]) =>
                weight_vector[a] = call.weight_dict.w[key]

(* C24: a custom configuration never outlives the compute_alpha call that *)
(* loaded it: when compute_alpha(config_path=P) has finished, by returning *)
(* a result or by raising, the active configuration is the default one     *)
(* again (_CUSTOM_CONFIG is None).                                         *)
C24_ConfigRestored ==
    (/\ pc \in {"done", "error"}
     /\ call.entry = "compute_alpha"
     /\ call.config_path # "None") =>
        CUSTOM_CONFIG = "None"

\* the share of D_e attributed to the category v: half of the contribution of
\* every ordered pair of values in which v is the first, and half of that of
\* every ordered pair in which v is the second
AttributedShare(matrix, v) ==
    LET Contribution(v1, v2) ==
            Mul(distance_fn(data_type_enum, call.ordinal_scale, v1, v2),
                Mul(Freq(matrix, v1), Freq(matrix, v2)))
        Half(x) == Div(x, FromInt(2))
    IN  Add(SumFn([v2 \in ObservedValues(matrix) |-> Half(Contribution(v, v2))]),
            SumFn([v1 \in ObservedValues(matrix) |-> Half(Contribution(v1, v))]))

(* C28: for nominal and ordinal data the expected_disagreement reported    *)
(* for a category in per_category_scores is that category's attributed     *)
(* share of D_e divided by the number of distinct categories (rounded like *)
(* every reported number).                                                 *)
C28_PerCategoryExpected ==
    (Returned /\ data_type_enum \in {"nominal", "ordinal"}) =>
        \A c \in DOMAIN results.per_category_scores.scores :
            c.kind = "str" =>
                results.per_category_scores.scores[c].expected_disagreement
                    = round(Div(AttributedShare(reliability_matrix, c.v),
                                FromInt(Cardinality(ObservedValues(reliability_matrix)))))

\* the label the supplied mapping gives a code, "" if it gives none
LabelOfCode(v) ==
    LET at == {i \in 1..Len(mapping.items) : FEq(mapping.items[i].v, v)}
    IN  IF at = {} THEN "" ELSE mapping.items[CHOOSE i \in at : TRUE].k

\* the ordinal distance of two codes by the positions of their labels in the
\* supplied scale, the nominal distance if a label is not in the scale
LabelDistance(v1, v2) ==
    LET scale == call.ordinal_scale.items
        l1 == Str(LabelOfCode(v1))
        l2 == Str(LabelOfCode(v2))
    IN  IF Contains(scale, l1) /\ Contains(scale, l2)
        THEN FromInt((Rank(scale, l1) - Rank(scale, l2)) * (Rank(scale, l1) - Rank(scale, l2)))
        ELSE IF FEq(v1, v2) THEN Zero ELSE One

\* D_o with the distance of the labels
LabelDo(matrix) ==
    IF PairableUnits(matrix) = {} THEN Zero
    ELSE Div(SumFn([p \in CoderPairs(matrix) |->
                      Div(Mul(Mul(SuppliedWeight(p[2]), SuppliedWeight(p[3])),
                              LabelDistance(matrix[p[2]][p[1]], matrix[p[3]][p[1]])),
                          FromInt(m_u(matrix, p[1]) - 1))]),
             FromInt(SumFn([u \in PairableUnits(matrix) |-> FromInt(m_u(matrix, u))]).n))

\* D_e with the distance of the labels
LabelDe(matrix) ==
    SumFn([p \in ObservedValues(matrix) \X ObservedValues(matrix) |->
              Mul(LabelDistance(p[1], p[2]), Mul(Freq(matrix, p[1]), Freq(matrix, p[2])))])

(* C23: when krippendorff_alpha is called with data type ordinal and a     *)
(* caller-supplied ordinal_scale that lists the category labels in order,  *)
(* the distance applied inside the observed and the expected disagreement  *)
(* to two annotations whose labels both appear in the scale is the squared *)
(* difference of the labels' 0-based positions in the scale, not the 0/1   *)
(* nominal distance.                                                       *)
C23_LabelScaleApplied ==
    (/\ Computed
     /\ data_type_enum = "ordinal"
     /\ call.ordinal_scale = LabelScale
     /\ mapping.given) =>
        /\ observed_disagreement = LabelDo(reliability_matrix)
        /\ expected_disagreement = LabelDe(reliability_matrix)

(* C22: reverse_map never returns a substitute for a code that is missing   *)
(* from a supplied mapping: a call of krippendorff_alpha with a mapping     *)
(* returns only if every observed code has a label in the mapping.          *)
C22_LookupMissIsFatal ==
    (/\ Returned
     /\ call.entry = "krippendorff_alpha"
     /\ data_type_enum \in {"nominal", "ordinal"}
     /\ mapping.given) =>
        \A v \in ObservedValues(reliability_matrix) : LabelOfCode(v) # ""

(* C25: preprocess_data and process_dataframe leave the caller's table      *)
(* unchanged after they return: same column names, same cell values, same   *)
(* rows.                                                                    *)
C25_InputTableUnchanged ==
    (Preprocessed \/ DataframeProcessed) => df = call.df

(* C26: with the missing-value strategy 'drop' the table returned by        *)
(* preprocess_data contains exactly the input units that have a value from  *)
(* every annotator, for every data type.                                    *)
C26_DropRemovesIncompleteUnits ==
    (Preprocessed /\ call.missing_value_strategy = "drop") =>
        results.df.index
            = SelectSeq2(call.df.index,
                         [u \in 1..Len(call.df.values) |-> ~HasNa(call.df.values[u])], 1)

\* a label in lower case
LowerCase(label) ==
    CASE label \in {"High", "high"} -> "high"
      [] label \in {"Low", "low"} -> "low"
      [] label \in {"Medium", "medium"} -> "medium"
      [] OTHER -> label

\* the scales of the library that hold every label of the set, compared
\* case-insensitively
ScalesHolding(labels) ==
    {i \in 1..Len(ORDINAL_CATEGORIES) :
        {LowerCase(l) : l \in labels}
            \subseteq {LowerCase(e) : e \in Elements(ORDINAL_CATEGORIES[i])}}

\* the 0-based position of a label in a scale, compared case-insensitively
PositionIn(scale, label) ==
    (CHOOSE i \in 1..Len(scale) : LowerCase(scale[i]) = LowerCase(label)) - 1

(* C27: for ordinal data, whenever the labels of a column, compared         *)
(* case-insensitively, are a subset of a scale of the library, the code of  *)
(* each label is its position in the first such scale.                      *)
C27_ScaleMatchedCaseInsensitively ==
    (Preprocessed /\ call.metric = "ordinal") =>
        \A c \in 1..Len(call.annotator_cols) :
            LET column == ColumnOf(call.df.values, c)
                holding == ScalesHolding(unique_labels(column))
                first == CHOOSE i \in holding : \A j \in holding : i <= j
            IN  holding # {} =>
                    \A u \in 1..Len(column) :
                        column[u].kind = "str" =>
                            df.values[u][c]
                                = Num(FromInt(PositionIn(ORDINAL_CATEGORIES[first],
                                                         column[u].s)))

\* the table without its last annotator column
WithoutLastColumn(table) ==
    [u \in 1..Len(table) |-> SubSeq(table[u], 1, Len(table[u]) - 1)]

\* the coded labels process_dataframe returns for a nominal or ordinal table
CodedLabels(table) ==
    apply_label_mapping(table, enumerate_mapping(sorted(all_labels(table))))

(* C30: the coded labels process_dataframe returns for each previously      *)
(* existing annotator on a fresh copy of a table extended by a new          *)
(* annotator column equal the coded labels it returns for that annotator on *)
(* the original table.                                                      *)
C30_ExistingAnnotationsKept ==
    (/\ DataframeProcessed
     /\ call.data_type \in Categorical
     /\ Len(call.df.columns) >= 2) =>
        LET original == CodedLabels(WithoutLastColumn(call.df.values))
        IN  \A u \in 1..Len(call.df.values) :
                \A c \in 1..(Len(call.df.columns) - 1) :
                    results.annotations[u][c] = original[u][c]

\* what preprocess_data makes of the table of the running call in a process
\* that has coded no table yet
FreshlyCoded ==
    code_columns([table |-> call.df.values,
                  nominal_mappings |-> EmptyDict,
                  ordinal_mappings |-> EmptyDict],
                 call.annotator_cols, 1, call.metric)

(* C21: after any sequence of earlier preprocess_data calls in the same     *)
(* process, a call on a table returns the same codes and the same mappings  *)
(* as a call on that table in a fresh process; the returned mappings hold   *)
(* no column and no label of an earlier call.                               *)
C21_PreprocessDependsOnInputOnly ==
    (/\ Preprocessed
     /\ call.metric \in DataTypeEnum
     /\ call.missing_value_strategy = "ignore") =>
        /\ results.df.values = FreshlyCoded.table
        /\ results.nominal_mappings = FreshlyCoded.nominal_mappings
        /\ results.ordinal_mappings = FreshlyCoded.ordinal_mappings

\* update_reliability_matrix has returned the updated table
Updated == pc = "finished" /\ call.entry = "update_reliability_matrix"

(* C29: update_reliability_matrix in manual mode never loses data of the    *)
(* current matrix: for each update type the returned table is non-empty and *)
(* contains every column of current_df, and for new_doc and                 *)
(* new_doc_annotator it has at least as many rows as current_df.            *)
C29_UpdateKeepsCurrentMatrix ==
    (Updated /\ call.update_mode = "manual") =>
        /\ ~empty(results.df)
        /\ Elements(call.current_df.columns) \subseteq Elements(results.df.columns)
        /\ call.update_type \in {"new_doc", "new_doc_annotator"} =>
                Len(results.df.values) >= Len(call.current_df.values)

====
